---- MODULE Spec2Model ----
(***************************************************************************)
(* Migration utilities GitLab -> GitHub, as state machines.                *)
(*                                                                         *)
(* Every script of the repository is a sequential batch job.  One          *)
(* behaviour of this module is a series of invocations of ONE of the       *)
(* scripts (variable tool) against the same source and destination:        *)
(*   "pr"     gitlab_pr_to_github.py   (merge requests -> pull requests)   *)
(*   "issues" migrate_repo_with_lfs.py (issues -> issues)                  *)
(*   "map"    load_user_map / map_user of gitlab_pr_to_github.py           *)
(* What the two platforms answer (the source records, which branches and   *)
(* commits the destination holds) is chosen the first time the script      *)
(* reads it and stays fixed afterwards: the source is an immutable         *)
(* snapshot and the destination changes only through the script's writes.  *)
(***************************************************************************)
EXTENDS Integers, Sequences, FiniteSets, TLC

\* ---------------------------------------------------------------- bounds
MaxMR == 2        \* merge requests (and issues) of the source project
MaxNotes == 2     \* notes of one merge request / issue
MaxRuns == 2      \* invocations of the script over the same data
MaxRows == 2      \* rows of the user-map CSV
MaxLen == 2       \* characters of a CSV field
MaxRepos == 2     \* projects the discovery returns
MaxItems == 4     \* items of a listing endpoint
MaxPerPage == 2   \* page size asked of a listing endpoint (stands for per_page = 100)
MaxGroups == 3    \* subgroups below the top group
MaxProjects == 2  \* projects of the group tree
MaxSeg == 4       \* characters of a path segment
MaxUsers == 2     \* users the source lists

\* ------------------------------------------------------------- utilities
None == <<>>
Some(x) == <<x>>
\* the values a read may return: anything of dom the first time, the cached one after
Answers(cache, dom) == IF cache = None THEN dom ELSE {cache[1]}

Range(s) == {s[k] : k \in DOMAIN s}
RECURSIVE SelectSeqBy(_, _)
\* order-preserving filter of a sequence by membership in a set
SelectSeqBy(s, keep) ==
    IF s = <<>> THEN <<>>
    ELSE IF Head(s) \in keep THEN <<Head(s)>> \o SelectSeqBy(Tail(s), keep)
         ELSE SelectSeqBy(Tail(s), keep)
Count(s, x) == Cardinality({k \in DOMAIN s : s[k] = x})
\* the sequences without repetition over S
Listings(S) == {s \in UNION {[1..n -> S] : n \in 0..Cardinality(S)} :
                   \A i, j \in DOMAIN s : i # j => s[i] # s[j]}

\* dictionaries (Python dict) as sets of [k, v] entries with distinct keys
dict_keys(m) == {e.k : e \in m}
dict_set(m, k, v) == {e \in m : e.k # k} \cup {[k |-> k, v |-> v]}
dict_get(m, k, default) ==
    IF k \in dict_keys(m) THEN (CHOOSE e \in m : e.k = k).v ELSE default

\* ------------------------------------------------------------ the source
IIDs == 1..MaxMR
NoteIds == 1..MaxNotes
PROJECT_ID == 1
\* a note of the source: created_at is its id (ids are handed out in time order),
\* the even ones are system notes
note_created_at(n) == n
note_system(n) == n % 2 = 0
note_author(n) == IF n % 3 = 1 THEN "alice" ELSE "bob"
\* what a notes endpoint may return: the notes that exist, in any order
NoteListings == Listings(NoteIds)

\* line 280 of gitlab_pr_to_github.py: the marker f-string of (project id, iid)
Marker(project_id, iid) == [tag |-> "Imported-from-GitLab", project_id |-> project_id,
                            iid |-> iid]
\* line 212 of migrate_repo_with_lfs.py: the trailer "_Imported from GitLab issue #iid_"
IssueTrailer(iid) == [tag |-> "Imported from GitLab issue", project_id |-> 0, iid |-> iid]

GLStates == {"opened", "closed", "merged"}
LabelsOf(iid) == IF iid % 2 = 1 THEN {"bug"} ELSE {}
\* the markers of other records that the free-text description of a merge request
\* may contain: none (the descriptions of these inputs quote no marker)
Quotes(iid) == {{}}
\* a merge request as GitLab returns it: its state (merged_at is set exactly when it
\* is merged), its labels, its author, and the markers its description contains
MRRecords(iid) ==
    [gl_state : GLStates, labels : {LabelsOf(iid)}, author : {"alice"},
     quoted : Quotes(iid)]
\* an issue as GitLab returns it
IssueRecords(iid) ==
    [gl_state : {"opened", "closed"}, labels : {LabelsOf(iid)}, author : {"alice"},
     assignee : {None, Some("alice"), Some("bob")}]
\* --user-map-json: nothing, or a table that knows alice only
UserMaps == {{}, {[k |-> "alice", v |-> "alice_gh"]}}

\* branch names: main, the source branch of a merge request, and import/<name>
Branch(imp, name) == [import |-> imp, name |-> name]
MainBranch == Branch(FALSE, 0)
\* a default branch that is not main, and the empty branch name
MasterBranch == Branch(FALSE, -1)
EmptyBranch == Branch(FALSE, -2)
SourceBranch(iid) == Branch(FALSE, iid)
HeadSha(iid) == iid

\* characters and CSV fields of the user-map file
Chars == {"a", " "}
Fields == UNION {[1..n -> Chars] : n \in 0..MaxLen}
Rows == UNION {[1..n -> Fields] : n \in 0..2}
Unknown == <<"u", "n", "k", "n", "o", "w", "n">>
OptFields == {None} \cup {Some(f) : f \in Fields}

\* ------------------------------------------------------------- variables
VARIABLES
    tool,          \* which script this behaviour runs
    args,          \* command line flags of gitlab_pr_to_github.py
    user_map,      \* user_map argument of migrate_issues_gitlab_to_github
    branches,      \* ensure_head_and_base alone: its arguments and the default branch
    run,           \* number of invocations started
    pc,            \* position of the running invocation
    cur,           \* iid of the record being processed (0: none yet)
    gl_mrs,        \* source: iid -> merge request record, once read
    gl_issues,     \* source: iid -> issue record, once read
    gl_notes,      \* source: iid -> notes listing, once read
    gh_probed,     \* iid -> the destination's branch and commit for it are fixed
    gh_commits,    \* destination: commits present
    gh_diff,       \* iid -> whether head and base differ, once asked
    gh_refs,       \* destination: branch refs, [ref, sha]
    gh_labels,     \* destination: labels of the repository
    gh_objs,       \* destination: issues and pull requests, by number
    head, base, created_head,   \* locals of import_project_mrs
    pr_number, existing, note_idx,
    log,           \* calls issued for the current record, in order
    USER_MAP,      \* the table load_user_map builds
    rows_read,     \* CSV rows consumed
    map_arg, map_result,  \* last call of map_user: its argument and what it returned
    gh_repos,      \* destination: names of the repositories of the organisation
    mirror,        \* working directory: the <path>.git mirrors present
    pushed,        \* destination: repositories that received a mirror push
    logs,          \* what the running invocation has logged, [level, item]
    reader,        \* the function that reads a listing
    per_page,      \* the page size it asks for
    n_items,       \* the endpoint lists the items 1..n_items
    url, page,     \* the request to send next: first URL or a next link, page number
    params,        \* the query parameters to send with it
    sent,          \* the requests sent, [url, page, params, status]
    out,           \* the items handed to the caller so far
    method,        \* the HTTP method of the call made through the session
    statuses,      \* the statuses the attempts of that call were answered with
    tree,          \* the group tree of the source: [parent, home]
    projects,      \* the list get_all_projects_recursive returned
    env,           \* the environment variables that are set, a dict
    net,           \* the requests a starting script has sent to an API
    users,         \* block.py: the users the source lists
    targets,       \* block.py: the ids collected for blocking
    blocked,       \* block.py: the block requests sent, [uid, status]
    failures,      \* block.py: the ids whose block request was refused
    summary,       \* what the invocation reported as failed when it ended
    csv,           \* an output file of the export: absent, or its lines
    written,       \* every row the export runs handed to write_row, in order
    steps,         \* migrate_repo_with_lfs.py: the commands run, [cmd, rc]
    lm,            \* arguments of set_labels_and_milestone: [labels, milestone_title]
    gh_milestones, \* destination: the titles of the milestones
    pr_obj         \* destination: labels and milestone of the pull request

cfgvars == <<tool, args, user_map, branches>>
ctlvars == <<run, pc, cur>>
srcvars == <<gl_mrs, gl_issues, gl_notes>>
envvars == <<gh_probed, gh_commits, gh_diff>>
dstvars == <<gh_refs, gh_labels, gh_objs>>
locvars == <<head, base, created_head, pr_number, existing, note_idx, log>>
mapvars == <<USER_MAP, rows_read, map_arg, map_result>>
repvars == <<gh_repos, mirror, pushed, logs>>
lstvars == <<reader, per_page, n_items, url, page, params, sent, out>>
rtvars == <<method, statuses>>
trvars == <<tree, projects>>
auxvars == <<lstvars, rtvars, trvars>>
newvars == <<repvars, lstvars, rtvars, trvars>>
stvars == <<env, net>>
blkvars == <<users, targets, blocked, failures>>
csvvars == <<csv, written>>
lmvars == <<lm, gh_milestones, pr_obj>>
extvars == <<stvars, blkvars, summary, csvvars, steps, lmvars>>
datavars == <<srcvars, envvars, dstvars, locvars, mapvars>>
vars == <<cfgvars, ctlvars, srcvars, envvars, dstvars, locvars, mapvars, newvars,
          extvars>>

Call(op, arg) == [op |-> op, arg |-> arg]
Ops(l) == {l[k].op : k \in DOMAIN l}
\* the notes commented in a call log, in order
RECURSIVE Commented(_)
Commented(l) ==
    IF l = <<>> THEN <<>>
    ELSE IF Head(l).op = "comment" THEN <<Head(l).arg>> \o Commented(Tail(l))
         ELSE Commented(Tail(l))

\* =========================================================================
\* gitlab_pr_to_github.py
\* =========================================================================

\* lines 48-58: str.strip() of a CSV field
RECURSIVE lstrip(_)
lstrip(s) == IF s # <<>> /\ Head(s) = " " THEN lstrip(Tail(s)) ELSE s
RECURSIVE rstrip(_)
rstrip(s) ==
    IF s # <<>> /\ s[Len(s)] = " " THEN rstrip(SubSeq(s, 1, Len(s) - 1)) ELSE s
strip(s) == rstrip(lstrip(s))

\* lines 54-56: one row of the file goes into the mapping
load_user_map(mapping, row) ==
    IF Len(row) >= 2 THEN dict_set(mapping, strip(row[1]), strip(row[2]))
    ELSE mapping

\* lines 81-84; the argument is Optional[str]
map_user(mapping, gl_username) ==
    IF gl_username = None \/ gl_username[1] = <<>> THEN Unknown
    ELSE dict_get(mapping, gl_username[1], gl_username[1])

\* line 283: username or name or "unknown"
mr_author(username, name) ==
    IF username # None /\ username[1] # <<>> THEN username
    ELSE IF name # None /\ name[1] # <<>> THEN name
    ELSE Some(Unknown)

\* lines 294-309: the body holds the marker line, the author line and the description
Body(iid, mr) == [marker |-> Marker(PROJECT_ID, iid), quoted |-> mr.quoted,
                  credits |-> {mr.author}]
\* line 180: marker in body
MarkerIn(m, body) == m = body.marker \/ m \in body.quoted

\* line 287
mr_state(mr) ==
    IF mr.gl_state = "merged" THEN "merged"
    ELSE IF mr.gl_state = "closed" THEN "closed" ELSE "open"

\* lines 93-100 and 102-104
github_branch_exists(refs, b) == \E r \in refs : r.ref = b
github_commit_exists(commits, sha) == sha \in commits

\* a branch creation that takes "Reference already exists" for a failure
create_branch_strict(refs, commits, branch, sha) ==
    IF sha = None \/ ~github_commit_exists(commits, sha[1])
    THEN [ok |-> FALSE, refs |-> refs, posted |-> FALSE]
    ELSE IF github_branch_exists(refs, branch)
         THEN [ok |-> FALSE, refs |-> refs, posted |-> TRUE]
         ELSE [ok |-> TRUE, refs |-> refs \cup {[ref |-> branch, sha |-> sha[1]]},
               posted |-> TRUE]
\* lines 106-121: [ok, refs, posted]; sha is Optional[str] (GitLab's SHAs are
\* hexadecimal, so the test of line 108 is the test for an absent one); a 422
\* "Reference already exists" is a success
create_branch_from_sha(refs, commits, branch, sha) ==
    IF sha = None \/ ~github_commit_exists(commits, sha[1])
    THEN [ok |-> FALSE, refs |-> refs, posted |-> FALSE]
    ELSE IF github_branch_exists(refs, branch)
         THEN [ok |-> TRUE, refs |-> refs, posted |-> TRUE]
         ELSE [ok |-> TRUE, refs |-> refs \cup {[ref |-> branch, sha |-> sha[1]]},
               posted |-> TRUE]

\* lines 243-267: [head, base, created, refs, posted]; default_branch is what
\* github_repo_default_branch returns, an empty branch name is falsy
ensure_head_and_base(refs, commits, default_branch, source_branch, target_branch, head_sha) ==
    LET b1 == IF target_branch # EmptyBranch THEN target_branch ELSE default_branch
        b0 == IF github_branch_exists(refs, b1) THEN b1
              ELSE IF github_branch_exists(refs, default_branch) THEN default_branch
              ELSE MainBranch
        h0 == IF source_branch # EmptyBranch THEN source_branch ELSE b0
        cb == create_branch_from_sha(refs, commits, Branch(TRUE, h0.name), head_sha)
    IN  IF github_branch_exists(refs, h0)
        THEN [head |-> h0, base |-> b0, created |-> FALSE,
              refs |-> refs, posted |-> FALSE]
        ELSE IF cb.ok
             THEN [head |-> Branch(TRUE, h0.name), base |-> b0,
                   created |-> TRUE, refs |-> cb.refs, posted |-> cb.posted]
             ELSE [head |-> b0, base |-> b0, created |-> FALSE,
                   refs |-> refs, posted |-> cb.posted]

\* lines 169-173: the numbers GET /pulls?state=all lists, newest first (the
\* endpoint's default order); issues are not pull requests
RECURSIVE pulls(_, _)
pulls(objs, n) ==
    IF n = 0 THEN <<>>
    ELSE IF objs[n].kind = "pr" THEN <<n>> \o pulls(objs, n - 1)
         ELSE pulls(objs, n - 1)

\* lines 176-181: the first listed pull request whose body holds the marker
RECURSIVE first_with_marker(_, _, _)
first_with_marker(objs, listing, marker) ==
    IF listing = <<>> THEN 0
    ELSE IF MarkerIn(marker, objs[Head(listing)].body) THEN Head(listing)
         ELSE first_with_marker(objs, Tail(listing), marker)

\* a search that never finds anything
find_nothing(objs, marker) == 0
\* lines 166-182; 0 stands for None
find_existing_pr_by_marker(objs, marker) ==
    first_with_marker(objs, pulls(objs, Len(objs)), marker)

\* a filter that ignores the flag
keep_every_note(n, include_system) == TRUE
\* line 237: the note is yielded
keep_note(n, include_system) == ~(~include_system /\ note_system(n))
\* lines 234-239: the notes the generator yields, in listing order
get_mr_notes(listing, include_system) ==
    SelectSeqBy(listing, {n \in NoteIds : keep_note(n, include_system)})

\* a loop that stops before its first note
notes_skipped(idx, notes) == TRUE
\* lines 343-357: the loop over the notes is over
notes_done(idx, notes) == idx > Len(notes)

NewObj(kind, body, labels, assignees) ==
    [kind |-> kind, body |-> body, labels |-> labels, assignees |-> assignees,
     comments |-> <<>>, state |-> "open"]

ResetLocals ==
    /\ head' = MainBranch /\ base' = MainBranch /\ created_head' = FALSE
    /\ pr_number' = 0 /\ existing' = 0 /\ note_idx' = 0 /\ log' = <<>>

\* main, lines 361-377: one invocation starts
main ==
    /\ tool = "pr" /\ pc = "idle" /\ run < MaxRuns
    /\ run' = run + 1 /\ pc' = "loop" /\ cur' = 0
    /\ ResetLocals
    /\ UNCHANGED <<extvars, cfgvars, srcvars, envvars, dstvars, mapvars, newvars>>

\* line 274: the listing is exhausted, import_project_mrs returns
import_done ==
    /\ tool = "pr" /\ pc = "loop" /\ cur = MaxMR
    /\ pc' = "idle" /\ cur' = 0
    /\ ResetLocals
    /\ UNCHANGED <<extvars, cfgvars, run, srcvars, envvars, dstvars, mapvars, newvars>>

\* a run that writes whatever the flag says
never_dry_run(a) == FALSE

\* line 311
is_dry_run(a) == a.dry_run

\* lines 274-313: the next merge request is read; a dry run goes on to the next
next_mr ==
    /\ tool = "pr" /\ pc = "loop" /\ cur < MaxMR
    /\ cur' = cur + 1
    /\ \E mr \in Answers(gl_mrs[cur + 1], MRRecords(cur + 1)) :
           gl_mrs' = [gl_mrs EXCEPT ![cur + 1] = Some(mr)]
    /\ pc' = IF is_dry_run(args) THEN "loop" ELSE "ensure"
    /\ ResetLocals
    /\ UNCHANGED <<extvars, cfgvars, run, gl_issues, gl_notes, envvars, dstvars, mapvars, newvars>>

\* what the destination holds for a merge request before the first run touches it:
\* its source branch, or only its head commit, or neither
Probes == {"branch", "commit", "nothing"}

\* line 316; a POST of a ref is logged with 1 when it created the ref, 0 when the
\* destination answered that it exists
ensure_branches ==
    /\ tool = "pr" /\ pc = "ensure"
    /\ \E p \in (IF gh_probed[cur] THEN {"known"} ELSE Probes) :
         LET refs0 == IF p = "branch"
                      THEN gh_refs \cup {[ref |-> SourceBranch(cur), sha |-> HeadSha(cur)]}
                      ELSE gh_refs
             com0 == IF p \in {"branch", "commit"} THEN gh_commits \cup {HeadSha(cur)}
                     ELSE gh_commits
             r == ensure_head_and_base(refs0, com0, MainBranch, SourceBranch(cur), MainBranch,
                                       Some(HeadSha(cur)))
         IN  /\ gh_refs' = r.refs
             /\ gh_commits' = com0
             /\ head' = r.head /\ base' = r.base /\ created_head' = r.created
             /\ log' = log \o <<Call("ensure_head_and_base", 0)>> \o
                        (IF r.posted
                         THEN <<Call("create_ref", IF r.refs # refs0 THEN 1 ELSE 0)>>
                         ELSE <<>>)
    /\ gh_probed' = [gh_probed EXCEPT ![cur] = TRUE]
    /\ pc' = "create"
    /\ UNCHANGED <<extvars, cfgvars, run, cur, srcvars, gh_diff, gh_labels, gh_objs,
                   pr_number, existing, note_idx, mapvars, newvars>>

\* lines 184-188: the pull request is found by its marker
pr_found ==
    /\ tool = "pr" /\ pc = "create"
    /\ find_existing_pr_by_marker(gh_objs, Marker(PROJECT_ID, cur)) # 0
    /\ existing' = find_existing_pr_by_marker(gh_objs, Marker(PROJECT_ID, cur))
    /\ pr_number' = existing'
    /\ log' = Append(log, Call("search", 0))
    /\ pc' = "labels"
    /\ UNCHANGED <<extvars, cfgvars, run, cur, srcvars, envvars, dstvars, head, base,
                   created_head, note_idx, mapvars, newvars>>

\* POST /pulls answers 422 "No commits between" / head invalid
NoDiff(d) == head = base \/ ~d

\* lines 189-193: no pull request holds the marker, one is created
pr_created ==
    /\ tool = "pr" /\ pc = "create"
    /\ find_existing_pr_by_marker(gh_objs, Marker(PROJECT_ID, cur)) = 0
    /\ \E d \in Answers(gh_diff[cur], BOOLEAN) :
         /\ gh_diff' = [gh_diff EXCEPT ![cur] = Some(d)]
         /\ ~NoDiff(d)
    /\ gh_objs' = Append(gh_objs, NewObj("pr", Body(cur, gl_mrs[cur][1]), {}, {}))
    /\ pr_number' = Len(gh_objs) + 1
    /\ log' = log \o <<Call("search", 0), Call("create_pr", 0)>>
    /\ pc' = "labels"
    /\ UNCHANGED <<extvars, cfgvars, run, cur, srcvars, gh_probed, gh_commits, gh_refs,
                   gh_labels, head, base, created_head, existing, note_idx, mapvars, newvars>>

\* line 326
issue_labels == {"historical-mr"}

\* a fallback issue that carries no label
create_issue_unlabelled(objs, body, labels, ok) ==
    IF ok THEN [objs |-> Append(objs, NewObj("issue", body, {}, {})),
                number |-> Len(objs) + 1]
    ELSE [objs |-> objs, number |-> 0]

\* lines 159-164: POST /issues; the number of the issue, or None (0) after an error
\* is logged when the destination refuses
create_issue(objs, body, labels, ok) ==
    IF ok THEN [objs |-> Append(objs, NewObj("issue", body, labels, {})),
                number |-> Len(objs) + 1]
    ELSE [objs |-> objs, number |-> 0]

\* lines 321-333: no diff / invalid head with --issue-when-nodiff: an issue labelled
\* historical-mr is created instead (line 330 warns), or its creation is refused
\* (lines 163 and 332 log errors); the loop goes on to the next record
pr_nodiff_issue ==
    /\ tool = "pr" /\ pc = "create" /\ args.issue_when_nodiff
    /\ find_existing_pr_by_marker(gh_objs, Marker(PROJECT_ID, cur)) = 0
    /\ \E d \in Answers(gh_diff[cur], BOOLEAN) :
         /\ gh_diff' = [gh_diff EXCEPT ![cur] = Some(d)]
         /\ NoDiff(d)
    /\ \E ok \in BOOLEAN :
         LET r == create_issue(gh_objs, Body(cur, gl_mrs[cur][1]), issue_labels, ok)
         IN  /\ gh_objs' = r.objs
             /\ log' = log \o <<Call("search", 0), Call("create_pr_422", 0),
                                Call("create_issue", r.number)>> \o
                        (IF r.number # 0 THEN <<Call("warning", 0)>>
                         ELSE <<Call("error", 0), Call("error", 0)>>)
    /\ pc' = "loop"
    /\ UNCHANGED <<extvars, cfgvars, run, cur, srcvars, gh_probed, gh_commits, gh_refs,
                   gh_labels, head, base, created_head, pr_number, existing,
                   note_idx, mapvars, newvars>>

\* lines 334-336: no diff / invalid head without the switch: skipped with a warning
pr_nodiff_skip ==
    /\ tool = "pr" /\ pc = "create" /\ ~args.issue_when_nodiff
    /\ find_existing_pr_by_marker(gh_objs, Marker(PROJECT_ID, cur)) = 0
    /\ \E d \in Answers(gh_diff[cur], BOOLEAN) :
         /\ gh_diff' = [gh_diff EXCEPT ![cur] = Some(d)]
         /\ NoDiff(d)
    /\ log' = log \o <<Call("search", 0), Call("create_pr_422", 0), Call("warning", 0)>>
    /\ pc' = "loop"
    /\ UNCHANGED <<extvars, cfgvars, run, cur, srcvars, gh_probed, gh_commits, dstvars,
                   head, base, created_head, pr_number, existing, note_idx, mapvars, newvars>>

\* lines 125-130 and 147-150 (labels are ensured, then patched onto the object; the
\* POST of a label is logged with the number of labels it created, the others were
\* answered 422), and
\* line 343: the notes generator is started
set_labels_and_milestone ==
    /\ tool = "pr" /\ pc = "labels"
    /\ LET labels == gl_mrs[cur][1].labels
       IN  IF labels # {}
           THEN /\ gh_labels' = gh_labels \cup labels
                /\ gh_objs' = [gh_objs EXCEPT ![pr_number].labels = labels]
                /\ log' = log \o <<Call("ensure_labels", Cardinality(labels \ gh_labels)),
                                   Call("set_labels", 0)>>
           ELSE UNCHANGED <<gh_labels, gh_objs, log>>
    /\ \E l \in Answers(gl_notes[cur], NoteListings) :
           gl_notes' = [gl_notes EXCEPT ![cur] = Some(l)]
    /\ note_idx' = 1
    /\ pc' = "notes"
    /\ UNCHANGED <<extvars, cfgvars, run, cur, gl_mrs, gl_issues, envvars, gh_refs, head,
                   base, created_head, pr_number, existing, mapvars, newvars>>

CurNotes == get_mr_notes(gl_notes[cur][1], args.include_system_notes)

\* lines 343-356 and 156-157: one note becomes one comment
add_issue_comment ==
    /\ tool = "pr" /\ pc = "notes"
    /\ ~notes_done(note_idx, CurNotes)
    /\ gh_objs' = [gh_objs EXCEPT ![pr_number].comments =
                       Append(@, CurNotes[note_idx])]
    /\ log' = Append(log, Call("comment", CurNotes[note_idx]))
    /\ note_idx' = note_idx + 1
    /\ UNCHANGED <<extvars, cfgvars, ctlvars, srcvars, envvars, gh_refs, gh_labels, head,
                   base, created_head, pr_number, existing, mapvars, newvars>>

\* PATCH state=closed; a merged pull request stays merged
closed(obj) == [obj EXCEPT !.state = IF @ = "merged" THEN @ ELSE "closed"]

\* what PUT /pulls/{n}/merge answers: merged, or 405 not mergeable (the only answer
\* for a pull request that is not open)
MergeStatuses == {200, 405}
\* what PATCH /issues/{n} answers
CloseStatuses == {200, 422}
\* the destination after the two requests
merge_put(obj, status) == IF status = 200 THEN [obj EXCEPT !.state = "merged"] ELSE obj
close_patch(obj, status) == IF status = 200 THEN closed(obj) ELSE obj

\* a caller that takes every answer of the merge for a success
always_merged(status) == TRUE
\* line 199
merged_ok(status) == status \in {200, 201}

\* lines 195-205 and 359: merged -> merge, and close when the merge is refused;
\* closed -> close; open -> nothing; the answer of the close is not looked at
set_pr_state ==
    /\ tool = "pr" /\ pc = "notes"
    /\ notes_done(note_idx, CurNotes)
    /\ LET state == mr_state(gl_mrs[cur][1])
           entered == Append(log, Call("set_pr_state", 0))
           obj == gh_objs[pr_number]
       IN  IF state = "merged"
           THEN \E ms \in (IF obj.state = "open" THEN MergeStatuses ELSE {405}) :
                  IF merged_ok(ms)
                  THEN /\ gh_objs' = [gh_objs EXCEPT ![pr_number] = merge_put(@, ms)]
                       /\ log' = Append(entered, Call("merge", ms))
                  ELSE \E cs \in CloseStatuses :
                         /\ gh_objs' = [gh_objs EXCEPT ![pr_number] =
                                            close_patch(merge_put(@, ms), cs)]
                         /\ log' = entered \o <<Call("merge", ms), Call("close", cs)>>
           ELSE IF state = "closed"
           THEN \E cs \in CloseStatuses :
                  /\ gh_objs' = [gh_objs EXCEPT ![pr_number] = close_patch(@, cs)]
                  /\ log' = Append(entered, Call("close", cs))
           ELSE /\ log' = entered
                /\ UNCHANGED gh_objs
    /\ pc' = "loop"
    /\ UNCHANGED <<extvars, cfgvars, run, cur, srcvars, envvars, gh_refs, gh_labels, head,
                   base, created_head, pr_number, existing, note_idx, mapvars, newvars>>

\* a request raises (raise_for_status of lines 67, 137, 231; the raise of line 337):
\* nothing in import_project_mrs catches it, main logs it (lines 378-381) and the
\* invocation is over; a process that is stopped leaves the same state
import_failed ==
    /\ tool = "pr" /\ pc \in {"loop", "ensure", "create", "labels", "notes"}
    /\ pc' = "idle" /\ cur' = 0
    /\ ResetLocals
    /\ UNCHANGED <<extvars, cfgvars, run, srcvars, envvars, dstvars, mapvars, newvars>>

PrNext ==
    \/ main
    \/ import_done
    \/ next_mr
    \/ ensure_branches
    \/ pr_found
    \/ pr_created
    \/ pr_nodiff_issue
    \/ pr_nodiff_skip
    \/ set_labels_and_milestone
    \/ add_issue_comment
    \/ set_pr_state
    \/ import_failed

\* =========================================================================
\* migrate_repo_with_lfs.py: migrate_issues_gitlab_to_github
\* =========================================================================
ProjectLabels == UNION {LabelsOf(i) : i \in IIDs}

\* lines 203-207 and 215-216: the assignees of the payload
issue_assignees(umap, issue) ==
    IF issue.assignee # None /\ umap # {} /\ issue.assignee[1] \in dict_keys(umap)
    THEN {dict_get(umap, issue.assignee[1], "")}
    ELSE {}

\* lines 210-214: the body is the description and the trailer; it names no user
IssueBody(iid) == [marker |-> IssueTrailer(iid), quoted |-> {}, credits |-> {}]

\* lines 228-230: how a comment names the author of its note
comment_author_str(umap, author) ==
    IF umap # {} /\ author \in dict_keys(umap)
    THEN [at |-> TRUE, name |-> dict_get(umap, author, "")]
    ELSE [at |-> FALSE, name |-> author]

\* lines 225-227: system notes are skipped
issue_notes(listing) == SelectSeqBy(listing, {n \in NoteIds : ~note_system(n)})

\* one invocation of migrate_issues_gitlab_to_github starts (main, line 290)
issues_main ==
    /\ tool = "issues" /\ pc = "idle" /\ run < MaxRuns
    /\ run' = run + 1 /\ pc' = "sync" /\ cur' = 0
    /\ ResetLocals
    /\ UNCHANGED <<extvars, cfgvars, srcvars, envvars, dstvars, mapvars, newvars>>

\* lines 177-191: the labels of the project are created where the destination
\* does not list them
sync_labels ==
    /\ tool = "issues" /\ pc = "sync"
    /\ gh_labels' = gh_labels \cup ProjectLabels
    /\ pc' = "loop"
    /\ UNCHANGED <<extvars, cfgvars, run, cur, srcvars, envvars, gh_refs, gh_objs, locvars,
                   mapvars, newvars>>

\* lines 198-224: the next issue is created on the destination, its notes are read
issue_create ==
    /\ tool = "issues" /\ pc = "loop" /\ cur < MaxMR
    /\ cur' = cur + 1
    /\ \E issue \in Answers(gl_issues[cur + 1], IssueRecords(cur + 1)) :
         /\ gl_issues' = [gl_issues EXCEPT ![cur + 1] = Some(issue)]
         /\ gh_objs' = Append(gh_objs, NewObj("issue", IssueBody(cur + 1), issue.labels,
                                              issue_assignees(user_map, issue)))
    /\ pr_number' = Len(gh_objs) + 1
    /\ \E l \in Answers(gl_notes[cur + 1], NoteListings) :
           gl_notes' = [gl_notes EXCEPT ![cur + 1] = Some(l)]
    /\ log' = <<Call("create_issue", 0)>>
    /\ note_idx' = 1
    /\ pc' = "notes"
    /\ UNCHANGED <<extvars, cfgvars, run, gl_mrs, envvars, gh_refs, gh_labels, head, base,
                   created_head, existing, mapvars, newvars>>

\* lines 225-234: one note becomes one comment
issue_comment ==
    /\ tool = "issues" /\ pc = "notes"
    /\ note_idx <= Len(issue_notes(gl_notes[cur][1]))
    /\ LET n == issue_notes(gl_notes[cur][1])[note_idx]
       IN  /\ gh_objs' = [gh_objs EXCEPT ![pr_number].comments = Append(@, n)]
           /\ log' = Append(log, Call("comment", n))
    /\ note_idx' = note_idx + 1
    /\ UNCHANGED <<extvars, cfgvars, ctlvars, srcvars, envvars, gh_refs, gh_labels, head,
                   base, created_head, pr_number, existing, mapvars, newvars>>

\* lines 236-240: the issue is closed when the source issue is
issue_close ==
    /\ tool = "issues" /\ pc = "notes"
    /\ note_idx > Len(issue_notes(gl_notes[cur][1]))
    /\ IF gl_issues[cur][1].gl_state = "closed"
       THEN /\ gh_objs' = [gh_objs EXCEPT ![pr_number] = closed(@)]
            /\ log' = log \o <<Call("set_pr_state", 0), Call("close", 0)>>
       ELSE /\ log' = Append(log, Call("set_pr_state", 0))
            /\ UNCHANGED gh_objs
    /\ pc' = "loop"
    /\ UNCHANGED <<extvars, cfgvars, run, cur, srcvars, envvars, gh_refs, gh_labels, head,
                   base, created_head, pr_number, existing, note_idx, mapvars, newvars>>

\* line 198: the issues are exhausted
issues_done ==
    /\ tool = "issues" /\ pc = "loop" /\ cur = MaxMR
    /\ pc' = "idle" /\ cur' = 0
    /\ ResetLocals
    /\ UNCHANGED <<extvars, cfgvars, run, srcvars, envvars, dstvars, mapvars, newvars>>

\* lines 307-310: a request raises (raise_for_status, lines 183, 218, 234, 240, or
\* the paginated reads); the error is printed and the invocation is over
issues_failed ==
    /\ tool = "issues" /\ pc \in {"sync", "loop", "notes"}
    /\ pc' = "idle" /\ cur' = 0
    /\ ResetLocals
    /\ UNCHANGED <<extvars, cfgvars, run, srcvars, envvars, dstvars, mapvars, newvars>>

IssuesNext ==
    \/ issues_main
    \/ sync_labels
    \/ issue_create
    \/ issue_comment
    \/ issue_close
    \/ issues_done
    \/ issues_failed

\* =========================================================================
\* gitlab_pr_to_github.py: the identity mapper
\* =========================================================================
\* lines 52-56: one more row of the CSV file is read
load_row ==
    /\ tool = "map" /\ pc = "idle" /\ rows_read < MaxRows
    /\ \E row \in Rows : USER_MAP' = load_user_map(USER_MAP, row)
    /\ rows_read' = rows_read + 1
    /\ UNCHANGED <<extvars, cfgvars, ctlvars, srcvars, envvars, dstvars, locvars, map_arg,
                   map_result, newvars>>

\* lines 50-51 and 57-58: there is no file, or it ends
load_end ==
    /\ tool = "map" /\ pc = "idle"
    /\ pc' = "ready"
    /\ UNCHANGED <<extvars, cfgvars, run, cur, srcvars, envvars, dstvars, locvars, mapvars, newvars>>

\* lines 283-284: the author of a merge request is mapped
map_mr_author ==
    /\ tool = "map" /\ pc = "ready"
    /\ \E username \in OptFields, name \in OptFields :
         /\ map_arg' = mr_author(username, name)
         /\ map_result' = Some(map_user(USER_MAP, mr_author(username, name)))
    /\ UNCHANGED <<extvars, cfgvars, ctlvars, srcvars, envvars, dstvars, locvars, USER_MAP,
                   rows_read, newvars>>

\* lines 344-345: the author of a note is mapped: username or name, possibly neither
map_note_author ==
    /\ tool = "map" /\ pc = "ready"
    /\ \E n_author \in OptFields :
         /\ map_arg' = n_author
         /\ map_result' = Some(map_user(USER_MAP, n_author))
    /\ UNCHANGED <<extvars, cfgvars, ctlvars, srcvars, envvars, dstvars, locvars, USER_MAP,
                   rows_read, newvars>>

MapNext ==
    \/ load_row
    \/ load_end
    \/ map_mr_author
    \/ map_note_author

\* =========================================================================
\* gitlab_pr_to_github.py: the branches of the merge requests of one project
\* =========================================================================
\* what lines 277-278 and 288 read of a merge request: merge requests may come from
\* the same source branch (here the branch of the first one), each with its own head
\* commit, which GitLab may not report
HeadRecords(iid) ==
    [source_branch : {SourceBranch(1), SourceBranch(iid)},
     head_sha : {None, Some(HeadSha(iid))}]

\* main, lines 361-377, against a destination that already holds some of the source
\* branches and some of the head commits
heads_main ==
    /\ tool = "heads" /\ pc = "idle" /\ run < MaxRuns
    /\ run' = run + 1 /\ pc' = "loop" /\ cur' = 0
    /\ IF run = 0
       THEN /\ \E C \in SUBSET {HeadSha(i) : i \in IIDs} : gh_commits' = {0} \cup C
            /\ \E B \in SUBSET {SourceBranch(i) : i \in IIDs} :
                   gh_refs' = gh_refs \cup {[ref |-> b, sha |-> 0] : b \in B}
       ELSE UNCHANGED <<gh_commits, gh_refs>>
    /\ ResetLocals
    /\ UNCHANGED <<extvars, cfgvars, srcvars, gh_probed, gh_diff, gh_labels, gh_objs, mapvars, newvars>>

\* lines 274-316: the next merge request is read and its head and base are resolved
resolve_head ==
    /\ tool = "heads" /\ pc = "loop" /\ cur < MaxMR
    /\ cur' = cur + 1
    /\ \E mr \in Answers(gl_mrs[cur + 1], HeadRecords(cur + 1)) :
         LET r == ensure_head_and_base(gh_refs, gh_commits, MainBranch,
                                       mr.source_branch, MainBranch, mr.head_sha)
         IN  /\ gl_mrs' = [gl_mrs EXCEPT ![cur + 1] = Some(mr)]
             /\ gh_refs' = r.refs
             /\ head' = r.head /\ base' = r.base /\ created_head' = r.created
             /\ log' = <<Call("ensure_head_and_base", 0)>> \o
                        (IF r.posted
                         THEN <<Call("create_ref", IF r.refs # gh_refs THEN 1 ELSE 0)>>
                         ELSE <<>>)
    /\ UNCHANGED <<extvars, cfgvars, run, pc, gl_issues, gl_notes, envvars, gh_labels, gh_objs,
                   pr_number, existing, note_idx, mapvars, newvars>>

\* line 274: the listing is exhausted
heads_done ==
    /\ tool = "heads" /\ pc = "loop" /\ cur = MaxMR
    /\ pc' = "idle" /\ cur' = 0
    /\ ResetLocals
    /\ UNCHANGED <<extvars, cfgvars, run, srcvars, envvars, dstvars, mapvars, newvars>>

HeadsNext ==
    \/ heads_main
    \/ resolve_head
    \/ heads_done

\* =========================================================================
\* gitlab_pr_to_github.py: ensure_head_and_base alone
\* =========================================================================
\* the arguments of a call (lines 288-289 and 316: the branch names may be empty, the
\* head SHA absent) and the default branch the destination reports
BranchInputs ==
    [source_branch : {EmptyBranch, SourceBranch(1)},
     target_branch : {EmptyBranch, MainBranch, MasterBranch},
     default_branch : {MainBranch, MasterBranch},
     head_sha : {None, Some(HeadSha(1))}]
NoBranches == [source_branch |-> EmptyBranch, target_branch |-> EmptyBranch,
               default_branch |-> MainBranch, head_sha |-> None]
\* the branches the destination may hold before the call: a repository that holds
\* commits has a branch
BranchSets ==
    {{[ref |-> b, sha |-> 0] : b \in B} :
        B \in SUBSET {MainBranch, MasterBranch, SourceBranch(1)} \ {{}}}

\* line 316: the call and what it returns
resolve_call ==
    /\ tool = "resolve" /\ pc = "idle" /\ run < MaxRuns
    /\ run' = run + 1 /\ pc' = "returned"
    /\ LET r == ensure_head_and_base(gh_refs, gh_commits, branches.default_branch,
                                     branches.source_branch, branches.target_branch,
                                     branches.head_sha)
       IN  /\ gh_refs' = r.refs
           /\ head' = r.head /\ base' = r.base /\ created_head' = r.created
           /\ log' = <<Call("ensure_head_and_base", 0)>> \o
                      (IF r.posted
                       THEN <<Call("create_ref", IF r.refs # gh_refs THEN 1 ELSE 0)>>
                       ELSE <<>>)
    /\ UNCHANGED <<extvars, cfgvars, cur, srcvars, envvars, gh_labels, gh_objs,
                   pr_number, existing, note_idx, mapvars, newvars>>

\* lines 89, 101 and 378-381: a request of the resolution raises, the run is over
resolve_raised ==
    /\ tool = "resolve" /\ pc = "idle" /\ run < MaxRuns
    /\ run' = run + 1 /\ pc' = "raised"
    /\ UNCHANGED <<extvars, cfgvars, cur, datavars, newvars>>

\* the record is over, the next run may start
resolve_over ==
    /\ tool = "resolve" /\ pc \in {"returned", "raised"}
    /\ pc' = "idle"
    /\ ResetLocals
    /\ UNCHANGED <<extvars, cfgvars, run, cur, srcvars, envvars, dstvars, mapvars,
                   newvars>>

ResolveNext ==
    \/ resolve_call
    \/ resolve_raised
    \/ resolve_over

\* =========================================================================
\* migrate_bdsf_gitlab_to_csn_github.py
\* =========================================================================
\* the list get_all_repos_recursive returned (line 95), and line 76: the name of the
\* destination repository of a project
Repos == 1..MaxRepos
RepoName(repo) == repo
Log(level, item) == [level |-> level, item |-> item]

\* lines 55-73: [ok, names, status]; a 422 is logged as a warning and returns True
create_github_repo(names, repo_name) ==
    IF repo_name \in names THEN [ok |-> TRUE, names |-> names, status |-> 422]
    ELSE [ok |-> TRUE, names |-> names \cup {repo_name}, status |-> 201]

\* main, lines 93-95, against an organisation that already holds some of the names
bdsf_main ==
    /\ tool = "bdsf" /\ pc = "idle" /\ run < MaxRuns
    /\ run' = run + 1 /\ pc' = "loop" /\ cur' = 0
    /\ IF run = 0
       THEN \E N \in SUBSET {RepoName(r) : r \in Repos} : gh_repos' = N
       ELSE UNCHANGED gh_repos
    /\ logs' = <<>>
    /\ UNCHANGED <<extvars, cfgvars, srcvars, envvars, dstvars, locvars, mapvars, mirror, pushed, lstvars, rtvars, trvars>>

\* lines 96-98 and 76-80: the next project of the list
next_repo ==
    /\ tool = "bdsf" /\ pc = "loop" /\ cur < MaxRepos
    /\ cur' = cur + 1 /\ pc' = "create"
    /\ UNCHANGED <<extvars, cfgvars, run, srcvars, envvars, dstvars, locvars, mapvars, newvars>>

\* line 81
migrate_repo_create ==
    /\ tool = "bdsf" /\ pc = "create"
    /\ LET r == create_github_repo(gh_repos, RepoName(cur))
       IN  /\ gh_repos' = r.names
           /\ logs' = IF r.status = 422 THEN Append(logs, Log("warning", cur)) ELSE logs
           /\ pc' = IF r.ok THEN "clone" ELSE "failed"
    /\ UNCHANGED <<extvars, cfgvars, run, cur, srcvars, envvars, dstvars, locvars, mapvars,
                   mirror, pushed, lstvars, rtvars, trvars>>

\* line 84: git clone --mirror writes <path>.git; it exits non-zero when that
\* directory is there already
git_clone ==
    /\ tool = "bdsf" /\ pc = "clone" /\ cur \notin mirror
    /\ mirror' = mirror \cup {cur}
    /\ pc' = "push"
    /\ UNCHANGED <<extvars, cfgvars, run, cur, srcvars, envvars, dstvars, locvars, mapvars,
                   gh_repos, pushed, logs, lstvars, rtvars, trvars>>

\* lines 87-88: git remote set-url --push, git push --mirror
git_push ==
    /\ tool = "bdsf" /\ pc = "push"
    /\ pushed' = pushed \cup {RepoName(cur)}
    /\ pc' = "cleanup"
    /\ UNCHANGED <<extvars, cfgvars, run, cur, srcvars, envvars, dstvars, locvars, mapvars,
                   gh_repos, mirror, logs, lstvars, rtvars, trvars>>

\* lines 91 and 99: rm -rf of the mirror, the success is logged
cleanup ==
    /\ tool = "bdsf" /\ pc = "cleanup"
    /\ mirror' = mirror \ {cur}
    /\ logs' = Append(logs, Log("info", cur))
    /\ pc' = "loop"
    /\ UNCHANGED <<extvars, cfgvars, run, cur, srcvars, envvars, dstvars, locvars, mapvars,
                   gh_repos, pushed, lstvars, rtvars, trvars>>

\* lines 100-101: a step of migrate_repo raised (raise_for_status of line 72, or
\* check=True of lines 84-91); the failure is logged with the path of the project
migrate_repo_failed ==
    /\ tool = "bdsf" /\ pc \in {"create", "clone", "push", "cleanup", "failed"}
    /\ logs' = Append(logs, Log("error", cur))
    /\ pc' = "loop"
    /\ UNCHANGED <<extvars, cfgvars, run, cur, srcvars, envvars, dstvars, locvars, mapvars,
                   gh_repos, mirror, pushed, lstvars, rtvars, trvars>>

\* line 96: the list is exhausted
bdsf_done ==
    /\ tool = "bdsf" /\ pc = "loop" /\ cur = MaxRepos
    /\ pc' = "idle" /\ cur' = 0
    /\ UNCHANGED <<extvars, cfgvars, run, srcvars, envvars, dstvars, locvars, mapvars, newvars>>

BdsfNext ==
    \/ bdsf_main
    \/ next_repo
    \/ migrate_repo_create
    \/ git_clone
    \/ git_push
    \/ cleanup
    \/ migrate_repo_failed
    \/ bdsf_done

\* =========================================================================
\* the readers of listings
\* =========================================================================
\* "paginate"          gitlab_pr_to_github.py 62-79, export_gitlab_audit.py 70-88
\* "paginate_pages"    migrate_repo_with_lfs.py 142-158
\* "block"             block.py 15-27
\* "get_group_projects" archive/archive_gl_projects_script.py 15-33
\* "get_group_repos"   migrate_bdsf_gitlab_to_csn_github.py 18-30 (and the single GET
\*                     of gitlab_pr_to_github.py 136-138, migrate_repo_with_lfs.py
\*                     182-184)
\* "find_existing_pr_by_marker"  gitlab_pr_to_github.py 166-182
Readers == {"paginate", "paginate_pages", "block", "get_group_projects",
            "get_group_repos", "find_existing_pr_by_marker"}
\* no reader is followed beyond this number of requests
MaxRequests == 2 * MaxItems + 2
PageReaders == {"paginate_pages", "block", "get_group_projects"}
NumberedReaders == PageReaders \cup {"find_existing_pr_by_marker"}
Raising == Readers \ {"get_group_projects"}

Min(a, b) == IF a < b THEN a ELSE b
\* what the endpoint answers: page k of the items 1..n in pages of the given size,
\* and whether its Link header names a next page
PageOf(n, size, k) ==
    [i \in 1..(IF Min(k * size, n) > (k - 1) * size
               THEN Min(k * size, n) - (k - 1) * size ELSE 0) |-> (k - 1) * size + i]
HasNext(n, size, k) == k * size < n
Request(u, k, ps, status) == [url |-> u, page |-> k, params |-> ps, status |-> status]

\* a paginator that sends its parameters again
keep_params(ps) == ps
\* line 79 of gitlab_pr_to_github.py, line 88 of export_gitlab_audit.py: params = None
next_params(ps) == {}
\* a test that takes a full page for the last one
full_page_is_last(items, size) == Len(items) <= size
\* line 155 of migrate_repo_with_lfs.py
short_page(items, size) == Len(items) < size

\* a page counter that stays where it is
same_page(k) == k
\* line 182 of gitlab_pr_to_github.py (line 27 of block.py, line 31 of the archive
\* script): page += 1
next_page(k) == k + 1

\* a caller starts to read a listing: lines 63-64 (per_page is set by default),
\* lines 144-148 of migrate_repo_with_lfs.py, line 16 of block.py
fetch_start ==
    /\ tool = "list" /\ pc \in {"idle", "done", "found", "raised"} /\ run < MaxRuns
    /\ run' = run + 1 /\ pc' = "fetch"
    /\ reader' \in Readers
    /\ per_page' \in 1..MaxPerPage
    /\ n_items' \in 0..MaxItems
    /\ \E caller \in {{}, {"state"}} :
         params' = caller \cup (IF reader' \in NumberedReaders THEN {"page", "per_page"}
                                ELSE {"per_page"})
    /\ url' = "first" /\ page' = 1 /\ sent' = <<>> /\ out' = <<>>
    /\ UNCHANGED <<extvars, cfgvars, cur, srcvars, envvars, dstvars, locvars, mapvars, repvars, rtvars, trvars>>

\* lines 66-79 of gitlab_pr_to_github.py: one page is fetched and yielded, the next
\* link is followed
paginate_get ==
    /\ tool = "list" /\ pc = "fetch" /\ reader = "paginate"
    /\ Len(sent) < MaxRequests
    /\ sent' = Append(sent, Request(url, page, params, 200))
    /\ out' = out \o PageOf(n_items, per_page, page)
    /\ IF HasNext(n_items, per_page, page)
       THEN /\ url' = "next" /\ page' = page + 1 /\ params' = next_params(params)
            /\ pc' = "fetch"
       ELSE /\ pc' = "done"
            /\ UNCHANGED <<url, page, params>>
    /\ UNCHANGED <<extvars, cfgvars, run, cur, srcvars, envvars, dstvars, locvars, mapvars,
                   repvars, rtvars, trvars, reader, per_page, n_items>>

\* lines 146-158 of migrate_repo_with_lfs.py
paginate_pages_get ==
    /\ tool = "list" /\ pc = "fetch" /\ reader = "paginate_pages"
    /\ Len(sent) < MaxRequests
    /\ sent' = Append(sent, Request(url, page, params, 200))
    /\ LET items == PageOf(n_items, per_page, page)
       IN  /\ out' = out \o items
           /\ IF items = <<>> \/ short_page(items, per_page)
              THEN pc' = "done" /\ page' = page
              ELSE pc' = "fetch" /\ page' = next_page(page)
    /\ UNCHANGED <<extvars, cfgvars, run, cur, srcvars, envvars, dstvars, locvars, mapvars,
                   repvars, rtvars, trvars, reader, per_page, n_items, url, params>>

\* lines 17-27 of block.py and lines 19-31 of the archive script: pages are read
\* until one is empty
until_empty_get ==
    /\ tool = "list" /\ pc = "fetch" /\ reader \in {"block", "get_group_projects"}
    /\ Len(sent) < MaxRequests
    /\ sent' = Append(sent, Request(url, page, params, 200))
    /\ LET batch == PageOf(n_items, per_page, page)
       IN  /\ out' = out \o batch
           /\ IF batch = <<>>
              THEN pc' = "done" /\ page' = page
              ELSE pc' = "fetch" /\ page' = next_page(page)
    /\ UNCHANGED <<extvars, cfgvars, run, cur, srcvars, envvars, dstvars, locvars, mapvars,
                   repvars, rtvars, trvars, reader, per_page, n_items, url, params>>

\* lines 166-182 of gitlab_pr_to_github.py: a page of pull requests is fetched; an
\* empty page ends the search with None; else the bodies of its pull requests are
\* fetched one by one until one holds the marker, and the next page is asked for
\* when none does
find_get ==
    /\ tool = "list" /\ pc = "fetch" /\ reader = "find_existing_pr_by_marker"
    /\ Len(sent) < MaxRequests
    /\ LET pulls_page == PageOf(n_items, per_page, page)
       IN  \E hit \in 0..Len(pulls_page) :
             LET read == IF hit = 0 THEN pulls_page ELSE SubSeq(pulls_page, 1, hit)
             IN  /\ sent' = Append(sent, Request(url, page, params, 200)) \o
                             [i \in DOMAIN read |-> Request("issue", read[i], {}, 200)]
                 /\ out' = out \o read
                 /\ IF pulls_page = <<>> THEN pc' = "done" /\ page' = page
                    ELSE IF hit # 0 THEN pc' = "found" /\ page' = page
                    ELSE pc' = "fetch" /\ page' = next_page(page)
    /\ UNCHANGED <<extvars, cfgvars, run, cur, srcvars, envvars, dstvars, locvars, mapvars,
                   repvars, rtvars, trvars, reader, per_page, n_items, url, params>>

\* lines 18-30 of migrate_bdsf_gitlab_to_csn_github.py: one request, its answer is
\* the list
single_get ==
    /\ tool = "list" /\ pc = "fetch" /\ reader = "get_group_repos"
    /\ Len(sent) < MaxRequests
    /\ sent' = Append(sent, Request(url, page, params, 200))
    /\ out' = PageOf(n_items, per_page, page)
    /\ pc' = "done"
    /\ UNCHANGED <<extvars, cfgvars, run, cur, srcvars, envvars, dstvars, locvars, mapvars,
                   repvars, rtvars, trvars, reader, per_page, n_items, url, page, params>>

\* raise_for_status (line 67; lines 150, 20, 22 of the other readers): the request
\* is answered with an error status and the reader raises
fetch_raised ==
    /\ tool = "list" /\ pc = "fetch" /\ reader \in Raising
    /\ Len(sent) < MaxRequests
    /\ sent' = Append(sent, Request(url, page, params, 500))
    /\ pc' = "raised"
    /\ UNCHANGED <<extvars, cfgvars, run, cur, srcvars, envvars, dstvars, locvars, mapvars,
                   repvars, rtvars, trvars, reader, per_page, n_items, url, page, params, out>>

\* lines 22-24 and 33 of the archive script: the failure is printed, the loop is
\* left and the projects read so far are returned
fetch_failed_break ==
    /\ tool = "list" /\ pc = "fetch" /\ reader = "get_group_projects"
    /\ Len(sent) < MaxRequests
    /\ sent' = Append(sent, Request(url, page, params, 500))
    /\ pc' = "done"
    /\ UNCHANGED <<extvars, cfgvars, run, cur, srcvars, envvars, dstvars, locvars, mapvars,
                   repvars, rtvars, trvars, reader, per_page, n_items, url, page, params, out>>

ListNext ==
    \/ fetch_start
    \/ paginate_get
    \/ paginate_pages_get
    \/ until_empty_get
    \/ find_get
    \/ single_get
    \/ fetch_raised
    \/ fetch_failed_break

\* =========================================================================
\* make_session: the session that retries
\* =========================================================================
\* line 37 of gitlab_pr_to_github.py, line 59 of export_gitlab_audit.py
RETRY_TOTAL == 5
status_forcelist == {429, 500, 502, 503, 504}
\* the statuses an attempt may be answered with
HttpStatuses == {200, 404, 422} \cup status_forcelist
\* the methods the scripts call the session with; Retry is built without
\* allowed_methods, so the adapter retries a status for idempotent methods only
Methods == {"GET", "POST"}

\* a policy that retries every error status
retry_any_error(m, status) == status >= 400
\* Retry.is_retry under the arguments of line 37
is_retry(m, status) == m = "GET" /\ status \in status_forcelist
\* Retry.is_exhausted: total is counted down once per retry
is_exhausted(retries) == retries > RETRY_TOTAL

\* a call is made through the session (gl.get, gh.get, gh.post, ...)
session_request ==
    /\ tool = "retry" /\ pc \in {"idle", "returned", "raised"} /\ run < MaxRuns
    /\ run' = run + 1 /\ pc' = "sending"
    /\ method' \in Methods
    /\ statuses' = <<>>
    /\ UNCHANGED <<extvars, cfgvars, cur, srcvars, envvars, dstvars, locvars, mapvars, repvars,
                   lstvars, trvars>>

\* one attempt is answered: the response is returned, or the attempt is repeated,
\* or the retries are used up and the adapter raises
session_attempt ==
    /\ tool = "retry" /\ pc = "sending"
    /\ \E status \in HttpStatuses :
         /\ statuses' = Append(statuses, status)
         /\ pc' = IF ~is_retry(method, status) THEN "returned"
                  ELSE IF is_exhausted(Len(statuses) + 1) THEN "raised"
                  ELSE "sending"
    /\ UNCHANGED <<extvars, cfgvars, run, cur, srcvars, envvars, dstvars, locvars, mapvars,
                   repvars, lstvars, trvars, method>>

RetryNext ==
    \/ session_request
    \/ session_attempt

\* =========================================================================
\* discovery: get_all_projects_recursive / get_all_repos_recursive
\* =========================================================================
\* a group tree: the top group is 0, subgroup g hangs below parent[g] < g, project p
\* lies in group home[p]; the path segment of a group or project is its kind and id
Trees == [parent : {f \in [1..MaxGroups -> 0..(MaxGroups - 1)] :
                       \A g \in 1..MaxGroups : f[g] < g},
          home : [1..MaxProjects -> 0..MaxGroups]]
Seg(kind, id) == [kind |-> kind, id |-> id]
RECURSIVE SortedSeq(_)
\* a listing endpoint lists by ascending id
SortedSeq(S) ==
    IF S = {} THEN <<>>
    ELSE LET m == CHOOSE x \in S : \A y \in S : x <= y
         IN  <<m>> \o SortedSeq(S \ {m})
\* lines 209-213: the subgroups and the projects directly in a group
get_subgroups(t, group_id) ==
    SortedSeq({g \in DOMAIN t.parent : t.parent[g] = group_id})
get_group_projects(t, group_id) ==
    SortedSeq({q \in DOMAIN t.home : t.home[q] = group_id})

\* a walk that forgets the ancestors of a subgroup
flat_parent_path(parent_path, sg) == <<Seg("g", sg)>>
\* line 221
sub_parent_path(parent_path, sg) ==
    IF parent_path # <<>> THEN parent_path \o <<Seg("g", sg)>> ELSE <<Seg("g", sg)>>
\* line 218
full_path(parent_path, q) ==
    IF parent_path # <<>> THEN parent_path \o <<Seg("p", q)>> ELSE <<Seg("p", q)>>

RECURSIVE get_all_projects_recursive(_, _, _)
RECURSIVE extend_subgroups(_, _, _)
\* lines 220-222: the loop over the subgroups
extend_subgroups(t, sgs, parent_path) ==
    IF sgs = <<>> THEN <<>>
    ELSE get_all_projects_recursive(t, Head(sgs), sub_parent_path(parent_path, Head(sgs)))
         \o extend_subgroups(t, Tail(sgs), parent_path)
\* lines 215-223
get_all_projects_recursive(t, group_id, parent_path) ==
    LET ps == get_group_projects(t, group_id)
    IN  [i \in DOMAIN ps |-> [id |-> ps[i], full_path |-> full_path(parent_path, ps[i])]]
        \o extend_subgroups(t, get_subgroups(t, group_id), parent_path)

\* main, lines 361-371: an invocation starts; the source holds some group tree
tree_main ==
    /\ tool = "tree" /\ pc = "idle" /\ run < MaxRuns
    /\ run' = run + 1 /\ pc' = "discover"
    /\ IF run = 0 THEN tree' \in Trees ELSE UNCHANGED tree
    /\ projects' = <<>>
    /\ UNCHANGED <<extvars, cfgvars, cur, srcvars, envvars, dstvars, locvars, mapvars, repvars,
                   lstvars, rtvars>>

\* line 372
discover ==
    /\ tool = "tree" /\ pc = "discover"
    /\ projects' = get_all_projects_recursive(tree, 0, <<>>)
    /\ pc' = "idle"
    /\ UNCHANGED <<extvars, cfgvars, run, cur, srcvars, envvars, dstvars, locvars, mapvars,
                   repvars, lstvars, rtvars, tree>>

TreeNext ==
    \/ tree_main
    \/ discover

\* =========================================================================
\* the loops over the discovered projects: gitlab_pr_to_github.py main,
\* export_gitlab_audit.py main
\* =========================================================================
\* what a request made for a project may raise: requests.HTTPError comes from
\* raise_for_status; requests.RetryError from the session when the retries of
\* make_session are used up; KeyError from a field the answer lacks
Exceptions == {"HTTPError", "RetryError", "KeyError"}
\* lines 296, 300, 323, 354 of export_gitlab_audit.py: except requests.HTTPError
audit_catches(exc) == exc = "HTTPError"

\* main, lines 372-375 of gitlab_pr_to_github.py: the discovery has returned the list
projects_main ==
    /\ tool = "projects" /\ pc = "idle" /\ run < MaxRuns
    /\ run' = run + 1 /\ pc' = "loop" /\ cur' = 0
    /\ logs' = <<>>
    /\ UNCHANGED <<extvars, cfgvars, srcvars, envvars, dstvars, locvars, mapvars, gh_repos,
                   mirror, pushed, auxvars>>

\* lines 375-377 and 272: import_project_mrs is entered for the next project
import_project ==
    /\ tool = "projects" /\ pc = "loop" /\ cur < MaxRepos
    /\ cur' = cur + 1 /\ pc' = "import"
    /\ logs' = Append(logs, Log("info", cur + 1))
    /\ UNCHANGED <<extvars, cfgvars, run, srcvars, envvars, dstvars, locvars, mapvars, gh_repos,
                   mirror, pushed, auxvars>>

\* line 377: import_project_mrs returns
import_returned ==
    /\ tool = "projects" /\ pc = "import"
    /\ pc' = "loop"
    /\ UNCHANGED <<extvars, cfgvars, run, cur, srcvars, envvars, dstvars, locvars, mapvars,
                   newvars>>

\* lines 378-381: import_project_mrs raises; except requests.HTTPError and except
\* Exception catch whatever it is, the error is logged with the path of the project
import_raised ==
    /\ tool = "projects" /\ pc = "import"
    /\ \E exc \in Exceptions : logs' = Append(logs, Log("error", cur))
    /\ pc' = "loop"
    /\ UNCHANGED <<extvars, cfgvars, run, cur, srcvars, envvars, dstvars, locvars, mapvars,
                   gh_repos, mirror, pushed, auxvars>>

\* line 375: the list is exhausted
projects_done ==
    /\ tool = "projects" /\ pc = "loop" /\ cur = MaxRepos
    /\ pc' = "idle" /\ cur' = 0
    /\ UNCHANGED <<extvars, cfgvars, run, srcvars, envvars, dstvars, locvars, mapvars, newvars>>

\* export_gitlab_audit.py, the endpoints exported for a project, in this order
Endpoints == {"pipelines", "commits", "merge_requests"}
NextEndpoint(e) ==
    IF e = "pipelines" THEN "commits"
    ELSE IF e = "commits" THEN "merge_requests" ELSE "loop"

\* main, lines 228-233 of export_gitlab_audit.py
audit_main ==
    /\ tool = "audit" /\ pc = "idle" /\ run < MaxRuns
    /\ run' = run + 1 /\ pc' = "loop" /\ cur' = 0
    /\ logs' = <<>>
    /\ UNCHANGED <<extvars, cfgvars, srcvars, envvars, dstvars, locvars, mapvars, gh_repos,
                   mirror, pushed, auxvars>>

\* lines 233-240: the next project
audit_project ==
    /\ tool = "audit" /\ pc = "loop" /\ cur < MaxRepos
    /\ cur' = cur + 1 /\ pc' = "pipelines"
    /\ UNCHANGED <<extvars, cfgvars, run, srcvars, envvars, dstvars, locvars, mapvars, newvars>>

\* lines 241-299, 305-322, 328-353: the rows of an endpoint are written
endpoint_exported ==
    /\ tool = "audit" /\ pc \in Endpoints
    /\ pc' = NextEndpoint(pc)
    /\ UNCHANGED <<extvars, cfgvars, run, cur, srcvars, envvars, dstvars, locvars, mapvars,
                   newvars>>

\* a request for the endpoint raises: lines 300-301, 323-324, 354-355 warn with the
\* path of the project and go on; what they do not catch ends the process
endpoint_raised ==
    /\ tool = "audit" /\ pc \in Endpoints
    /\ \E exc \in Exceptions :
         IF audit_catches(exc)
         THEN /\ logs' = Append(logs, Log("warning", cur))
              /\ pc' = NextEndpoint(pc) /\ cur' = cur
         ELSE /\ pc' = "idle" /\ cur' = 0
              /\ UNCHANGED logs
    /\ UNCHANGED <<extvars, cfgvars, run, srcvars, envvars, dstvars, locvars, mapvars, gh_repos,
                   mirror, pushed, auxvars>>

\* line 233: the list is exhausted
audit_done ==
    /\ tool = "audit" /\ pc = "loop" /\ cur = MaxRepos
    /\ pc' = "idle" /\ cur' = 0
    /\ UNCHANGED <<extvars, cfgvars, run, srcvars, envvars, dstvars, locvars, mapvars, newvars>>

BatchNext ==
    \/ projects_main
    \/ import_project
    \/ import_returned
    \/ import_raised
    \/ projects_done
    \/ audit_main
    \/ audit_project
    \/ endpoint_exported
    \/ endpoint_raised
    \/ audit_done

\* =========================================================================
\* block.py
\* =========================================================================
Users == 1..MaxUsers
UserRecords(id) == [id : {id}, admin : BOOLEAN, state : {"active", "blocked"}]
\* the answers of GET /users over all its pages: users 1..n in the order of their ids
UserListings ==
    UNION {{l \in [1..n -> UNION {UserRecords(i) : i \in Users}] :
               \A i \in 1..n : l[i].id = i} : n \in 0..MaxUsers}
\* values the environment may give DRY_RUN
DryRunValues == {"1", "true", "yes", "TRUE", "0", "no", ""}
\* str.lower() over these values
lower(v) == IF v = "TRUE" THEN "true" ELSE v

\* line 10
DRY_RUN(e) == lower(dict_get(e, "DRY_RUN", "1")) \in {"1", "true", "yes"}

\* a collection that takes every listed user
every_user(l) == [i \in DOMAIN l |-> l[i].id]

RECURSIVE collect_targets(_)
\* lines 24-26: the users that are not administrators and are active, in order
collect_targets(l) ==
    IF l = <<>> THEN <<>>
    ELSE (IF ~Head(l).admin /\ Head(l).state = "active" THEN <<Head(l).id>> ELSE <<>>)
         \o collect_targets(Tail(l))

\* lines 8-30: the script starts, reads its environment and lists the users
block_main ==
    /\ tool = "block" /\ pc = "idle" /\ run < MaxRuns
    /\ run' = run + 1 /\ cur' = 0
    /\ \E e \in {{}} \cup {{[k |-> "DRY_RUN", v |-> v]} : v \in DryRunValues} : env' = e
    /\ \E l \in UserListings :
         /\ users' = l
         /\ targets' = collect_targets(l)
    /\ blocked' = <<>> /\ failures' = <<>> /\ summary' = None
    /\ pc' = "listed"
    /\ UNCHANGED <<cfgvars, datavars, newvars, net, csvvars, steps, lmvars>>

\* line 20: a page of the listing is answered with an error, the script ends
block_list_raised ==
    /\ tool = "block" /\ pc = "listed" /\ cur = 0
    /\ users' = <<>> /\ targets' = <<>>
    /\ pc' = "idle"
    /\ UNCHANGED <<cfgvars, run, cur, datavars, newvars, stvars, blocked, failures,
                   summary, csvvars, steps, lmvars>>

\* lines 34-36: a dry run ends after the targets are printed
block_dry_exit ==
    /\ tool = "block" /\ pc = "listed" /\ DRY_RUN(env)
    /\ pc' = "idle"
    /\ UNCHANGED <<cfgvars, run, cur, datavars, newvars, extvars>>

\* lines 40-47: the next target is blocked; a status other than 200 and 201 is a
\* failure
block_user ==
    /\ tool = "block" /\ pc = "listed" /\ ~DRY_RUN(env)
    /\ cur < Len(targets)
    /\ cur' = cur + 1
    /\ \E status \in {201, 403} :
         /\ blocked' = Append(blocked, [uid |-> targets[cur + 1], status |-> status])
         /\ failures' = IF status \in {200, 201} THEN failures
                        ELSE Append(failures, targets[cur + 1])
    /\ UNCHANGED <<cfgvars, run, pc, datavars, newvars, stvars, users, targets,
                   summary, csvvars, steps, lmvars>>

\* lines 49-52: the failures are printed, if there are any
block_summary ==
    /\ tool = "block" /\ pc = "listed" /\ ~DRY_RUN(env)
    /\ cur = Len(targets)
    /\ summary' = IF failures # <<>> THEN Some(failures) ELSE None
    /\ pc' = "idle" /\ cur' = 0
    /\ UNCHANGED <<cfgvars, run, datavars, newvars, stvars, blkvars, csvvars, steps,
                   lmvars>>

BlockNext ==
    \/ block_main
    \/ block_list_raised
    \/ block_dry_exit
    \/ block_user
    \/ block_summary

\* =========================================================================
\* the start of gitlab_pr_to_github.py and of export_gitlab_audit.py
\* =========================================================================
\* gitlab_pr_to_github.py line 369, export_gitlab_audit.py line 54
Required(t) ==
    IF t = "pr_start"
    THEN {"GITLAB_API_URL", "GITHUB_API_URL", "GITLAB_TOKEN", "GITHUB_TOKEN",
          "GITLAB_TOP_GROUP_ID", "GITHUB_ORG"}
    ELSE {"GITLAB_API_URL", "GITLAB_TOKEN", "GITLAB_TOP_GROUP_ID"}
\* the environments: each variable unset, set to the empty string, or set
Envs(t) == {e \in SUBSET [k : Required(t), v : {"", "1"}] :
               \A a, b \in e : a.k = b.k => a = b}
\* os.getenv(k)
getenv(e, k) == IF k \in dict_keys(e) THEN Some(dict_get(e, k, "")) ELSE None
\* the truth value Python gives to what os.getenv returned
truthy(o) == o # None /\ o[1] # ""
\* all([...]) over the required variables
all_set(e, t) == \A k \in Required(t) : truthy(getenv(e, k))

\* the module is loaded: load_dotenv and the os.getenv calls
\* (gitlab_pr_to_github.py 22-30, export_gitlab_audit.py 49-52)
load_dotenv ==
    /\ tool \in {"pr_start", "audit_start"} /\ pc = "idle" /\ run < MaxRuns
    /\ run' = run + 1
    /\ \E e \in Envs(tool) : env' = e
    /\ net' = <<>>
    /\ pc' = "loaded"
    /\ UNCHANGED <<cfgvars, cur, datavars, newvars, blkvars, summary, csvvars, steps,
                   lmvars>>

\* gitlab_pr_to_github.py lines 369-372: SystemExit when a variable is missing,
\* else the discovery sends the first request
pr_start ==
    /\ tool = "pr_start" /\ pc = "loaded"
    /\ IF all_set(env, tool)
       THEN /\ net' = Append(net, "gitlab")
            /\ pc' = "running"
       ELSE /\ pc' = "exit"
            /\ UNCHANGED net
    /\ UNCHANGED <<cfgvars, run, cur, datavars, newvars, env, blkvars, summary,
                   csvvars, steps, lmvars>>

\* export_gitlab_audit.py lines 54-55: a missing variable is reported on stderr and
\* the script goes on; line 226: int() of an unset or empty group id raises;
\* lines 229 and 75: the first request of the discovery is sent unless the URL is
\* unset or empty (requests refuses a URL without a scheme); a token that is unset
\* is left out of the headers
audit_start ==
    /\ tool = "audit_start" /\ pc = "loaded"
    /\ IF ~truthy(getenv(env, "GITLAB_TOP_GROUP_ID")) \/
          ~truthy(getenv(env, "GITLAB_API_URL"))
       THEN /\ pc' = "raised"
            /\ UNCHANGED net
       ELSE /\ net' = Append(net, "gitlab")
            /\ pc' = "running"
    /\ UNCHANGED <<cfgvars, run, cur, datavars, newvars, env, blkvars, summary,
                   csvvars, steps, lmvars>>

\* the invocation ends
start_over ==
    /\ tool \in {"pr_start", "audit_start"} /\ pc \in {"exit", "raised", "running"}
    /\ pc' = "idle"
    /\ UNCHANGED <<cfgvars, run, cur, datavars, newvars, extvars>>

StartNext ==
    \/ load_dotenv
    \/ pr_start
    \/ audit_start
    \/ start_over

\* =========================================================================
\* export_gitlab_audit.py: the output files
\* =========================================================================
\* the lines of an output file: its column header (lines 157-186), or a row
Header == [kind |-> "header", row |-> 0]
Row(r) == [kind |-> "row", row |-> r]
\* what the rows handed to write_row may hold
RowValues == 0..MaxRows

\* a header is written by every run
always_first(file) == TRUE

\* line 189
first(file) == file = None

\* lines 188-193: the file is opened for appending, which creates it, and the
\* header is written when the file was not there
write_header(file) ==
    LET lines == IF file = None THEN <<>> ELSE file[1]
    IN  Some(IF first(file) THEN Append(lines, Header) ELSE lines)

\* lines 195-198: one row is appended
write_row(file, r) == Some(Append(IF file = None THEN <<>> ELSE file[1], Row(r)))

\* lines 213-223: a run starts and writes the headers
export_main ==
    /\ tool = "csv" /\ pc = "idle" /\ run < MaxRuns
    /\ run' = run + 1 /\ cur' = 0
    /\ csv' = write_header(csv)
    /\ pc' = "rows"
    /\ UNCHANGED <<cfgvars, datavars, newvars, stvars, blkvars, summary, written,
                   steps, lmvars>>

\* lines 267, 294, 321, 352: a record of the source becomes a row
export_row ==
    /\ tool = "csv" /\ pc = "rows" /\ cur < MaxRows
    /\ cur' = cur + 1
    /\ \E r \in RowValues :
         /\ csv' = write_row(csv, r)
         /\ written' = Append(written, r)
    /\ UNCHANGED <<cfgvars, run, pc, datavars, newvars, stvars, blkvars, summary,
                   steps, lmvars>>

\* the run ends: the projects are exhausted, or an exception ended it
export_end ==
    /\ tool = "csv" /\ pc = "rows"
    /\ pc' = "idle" /\ cur' = 0
    /\ UNCHANGED <<cfgvars, run, datavars, newvars, extvars>>

CsvNext ==
    \/ export_main
    \/ export_row
    \/ export_end

\* =========================================================================
\* gitlab_pr_to_github.py: labels and milestone of a pull request
\* =========================================================================
\* the labels and the milestone title a merge request may carry
LabelNames == {"bug", "ui"}
MilestoneTitles == {"v1"}
\* answers of the destination: to the POST of a label, to a PATCH of the pull
\* request, to the GET of the milestones, to the POST of a milestone
LabelPostStatuses == {201, 422, 500}
PatchStatuses == {200, 500}
MilestoneGetStatuses == {200, 403}
MilestonePostStatuses == {201, 500}

\* line 137: raise_for_status() of the listing of the milestones
raise_for_status(status) == status >= 400

\* line 340 is reached with a pull request created or found
labels_main ==
    /\ tool = "labels" /\ pc = "idle" /\ run < MaxRuns
    /\ run' = run + 1
    /\ \E l \in SUBSET LabelNames, t \in {None} \cup {Some(m) : m \in MilestoneTitles} :
         lm' = [labels |-> l, milestone_title |-> t]
    /\ IF run = 0
       THEN \E M \in SUBSET MilestoneTitles : gh_milestones' = M
       ELSE UNCHANGED gh_milestones
    /\ pr_obj' = [labels |-> {}, milestone |-> None]
    /\ log' = <<>> /\ logs' = <<>>
    /\ pc' = "labels"
    /\ UNCHANGED <<cfgvars, cur, srcvars, envvars, dstvars, head, base, created_head,
                   pr_number, existing, note_idx, mapvars, gh_repos, mirror, pushed,
                   lstvars, rtvars, trvars, stvars, blkvars, summary, csvvars, steps>>

\* lines 148-150 and 125-130: every label is POSTed, an answer other than 200, 201
\* and 422 is logged as a warning; the labels are then PATCHed onto the pull
\* request and the answer to the PATCH is not looked at
ensure_and_set_labels ==
    /\ tool = "labels" /\ pc = "labels"
    /\ IF lm.labels = {}
       THEN UNCHANGED <<gh_labels, pr_obj, log, logs>>
       ELSE \E answer \in [lm.labels -> LabelPostStatuses], patch \in PatchStatuses :
              LET refused == {l \in lm.labels : answer[l] \notin {200, 201, 422}}
              IN  /\ gh_labels' = gh_labels \cup (lm.labels \ refused)
                  /\ logs' = logs \o [i \in 1..Cardinality(refused) |->
                                        Log("warning", "label")]
                  /\ pr_obj' = IF patch = 200 THEN [pr_obj EXCEPT !.labels = lm.labels]
                               ELSE pr_obj
                  /\ log' = log \o <<Call("post_labels", Cardinality(lm.labels)),
                                     Call("patch_labels", patch)>>
    /\ pc' = "milestone"
    /\ UNCHANGED <<cfgvars, run, cur, srcvars, envvars, gh_refs, gh_objs, head, base,
                   created_head, pr_number, existing, note_idx, mapvars, gh_repos,
                   mirror, pushed, lstvars, rtvars, trvars, stvars, blkvars, summary,
                   csvvars, steps, lm, gh_milestones>>

\* lines 151-154 and 132-145: the milestones are listed and the listing raises on an
\* error status; a milestone of that title is taken, or one is POSTed and a refusal
\* is logged as a warning; with a number the milestone is PATCHed onto the pull
\* request
ensure_and_set_milestone ==
    /\ tool = "labels" /\ pc = "milestone"
    /\ IF lm.milestone_title = None
       THEN /\ pc' = "notes"
            /\ UNCHANGED <<gh_milestones, pr_obj, log, logs>>
       ELSE \E get \in MilestoneGetStatuses, post \in MilestonePostStatuses,
               patch \in PatchStatuses :
              LET title == lm.milestone_title[1]
                  found == title \in gh_milestones
                  ms_no == found \/ post = 201
              IN  IF raise_for_status(get)
                  THEN /\ pc' = "raised"
                       /\ log' = Append(log, Call("list_milestones", get))
                       /\ UNCHANGED <<gh_milestones, pr_obj, logs>>
                  ELSE /\ pc' = "notes"
                       /\ gh_milestones' = IF ms_no THEN gh_milestones \cup {title}
                                           ELSE gh_milestones
                       /\ logs' = IF ms_no THEN logs
                                  ELSE Append(logs, Log("warning", "milestone"))
                       /\ pr_obj' = IF ms_no /\ patch = 200
                                    THEN [pr_obj EXCEPT !.milestone = Some(title)]
                                    ELSE pr_obj
                       /\ log' = log \o <<Call("list_milestones", get)>> \o
                                  (IF found THEN <<>>
                                   ELSE <<Call("create_milestone", post)>>) \o
                                  (IF ms_no THEN <<Call("patch_milestone", patch)>>
                                   ELSE <<>>)
    /\ UNCHANGED <<cfgvars, run, cur, srcvars, envvars, dstvars, head, base,
                   created_head, pr_number, existing, note_idx, mapvars, gh_repos,
                   mirror, pushed, lstvars, rtvars, trvars, stvars, blkvars, summary,
                   csvvars, steps, lm>>

\* lines 343-359: the notes are replayed and the final state is applied
replay_and_state ==
    /\ tool = "labels" /\ pc = "notes"
    /\ log' = log \o <<Call("replay_notes", 0), Call("apply_state", 0)>>
    /\ pc' = "idle"
    /\ UNCHANGED <<cfgvars, run, cur, srcvars, envvars, dstvars, head, base,
                   created_head, pr_number, existing, note_idx, mapvars, repvars,
                   lstvars, rtvars, trvars, extvars>>

\* the exception of line 137 leaves set_labels_and_milestone and import_project_mrs
\* (nothing catches it before main, lines 378-381): the project is over
milestone_raised ==
    /\ tool = "labels" /\ pc = "raised"
    /\ logs' = Append(logs, Log("error", "project"))
    /\ pc' = "idle"
    /\ UNCHANGED <<cfgvars, run, cur, datavars, gh_repos, mirror, pushed, lstvars,
                   rtvars, trvars, extvars>>

LabelsNext ==
    \/ labels_main
    \/ ensure_and_set_labels
    \/ ensure_and_set_milestone
    \/ replay_and_state
    \/ milestone_raised

\* =========================================================================
\* migrate_repo_with_lfs.py: the steps of main
\* =========================================================================
\* lines 271-280: the commands main runs through sh, in order, and the call of
\* ensure_github_repo between them; the clone is fresh, its only remote is "gitlab",
\* so that line 121 adds the remote "github"
Steps ==
    <<"git clone", "git fetch", "git lfs version", "git lfs install", "git add",
      "git commit", "git lfs migrate", "ensure_github_repo", "git remote",
      "git remote add", "git push heads", "git push tags", "git lfs push">>
\* what a step may end with: exit code 0 or not (ensure_github_repo: it raised)
ExitCodes == {0, 1}
\* lines 107-111: the RuntimeError of the commit is caught and dropped
ignored(cmd) == cmd = "git commit"

\* lines 264-270: an invocation starts
lfs_main ==
    /\ tool = "lfs" /\ pc = "idle" /\ run < MaxRuns
    /\ run' = run + 1 /\ cur' = 0
    /\ steps' = <<>> /\ summary' = None
    /\ pc' = "steps"
    /\ UNCHANGED <<cfgvars, datavars, newvars, stvars, blkvars, csvvars, lmvars>>

\* lines 28-33: the next command is run; sh raises when its exit code is not 0
sh ==
    /\ tool = "lfs" /\ pc = "steps" /\ cur < Len(Steps)
    /\ \E rc \in ExitCodes :
         /\ steps' = Append(steps, [cmd |-> Steps[cur + 1], rc |-> rc])
         /\ IF rc # 0 /\ ~ignored(Steps[cur + 1])
            THEN pc' = "raised" /\ cur' = cur
            ELSE pc' = "steps" /\ cur' = cur + 1
    /\ UNCHANGED <<cfgvars, run, datavars, newvars, stvars, blkvars, summary, csvvars,
                   lmvars>>

\* lines 282-301: the issues are migrated and "Done." is printed
lfs_done ==
    /\ tool = "lfs" /\ pc = "steps" /\ cur = Len(Steps)
    /\ pc' = "idle" /\ cur' = 0
    /\ UNCHANGED <<cfgvars, run, datavars, newvars, extvars>>

\* lines 302-310: the exception leaves main and is printed as ERROR
lfs_error ==
    /\ tool = "lfs" /\ pc = "raised"
    /\ summary' = Some(<<Steps[cur + 1]>>)
    /\ pc' = "idle" /\ cur' = 0
    /\ UNCHANGED <<cfgvars, run, datavars, newvars, stvars, blkvars, csvvars, steps,
                   lmvars>>

LfsNext ==
    \/ lfs_main
    \/ sh
    \/ lfs_done
    \/ lfs_error

\* =========================================================================
\* gitlab_pr_to_github.py: the marker search over the text of the bodies
\* =========================================================================
\* str(n) of a non-negative integer, character by character
DigitChars == <<"0", "1", "2", "3", "4", "5", "6", "7", "8", "9">>
RECURSIVE digits(_)
digits(n) ==
    IF n < 10 THEN <<DigitChars[n + 1]>>
    ELSE digits(n \div 10) \o <<DigitChars[(n % 10) + 1]>>

\* line 280: the marker f-string as text; the fixed pieces are single characters
\* of the alphabet
marker_text(project_id, iid) ==
    <<"[Imported-from-GitLab: project_id=">> \o digits(project_id) \o <<" iid=">>
      \o digits(iid) \o <<"]">>

\* the iid of the k-th merge request of the listing: 1, 12, 13, ...
marker_iid(k) == IF k = 1 THEN 1 ELSE 10 + k

\* line 307: the description of the k-th merge request: empty, free text, or text
\* that cites the marker of another merge request of the project
Descriptions(k) ==
    {<<>>, <<"text">>} \cup
    {<<"see ">> \o marker_text(PROJECT_ID, marker_iid(j)) : j \in IIDs \ {k}}

\* lines 294-309: the body as text: the marker line, the lines of details (the
\* iid is in the first of them) and the description
body_text(iid, description) ==
    marker_text(PROJECT_ID, iid) \o <<"**Imported from GitLab MR !">> \o digits(iid)
      \o <<"**", "details", "---">> \o description

\* line 180: marker in body, on str
marker_in_body(body, marker) ==
    \E k \in 0..(Len(body) - Len(marker)) : SubSeq(body, k + 1, k + Len(marker)) = marker

\* lines 176-181 on text: the first listed pull request whose body contains the
\* marker, 0 for None
RECURSIVE search_pulls(_, _, _)
search_pulls(objs, listing, marker) ==
    IF listing = <<>> THEN 0
    ELSE IF marker_in_body(objs[Head(listing)].body, marker) THEN Head(listing)
         ELSE search_pulls(objs, Tail(listing), marker)

\* main, lines 361-377: one invocation starts
marker_main ==
    /\ tool = "marker" /\ pc = "idle" /\ run < MaxRuns
    /\ run' = run + 1 /\ pc' = "loop" /\ cur' = 0
    /\ ResetLocals
    /\ UNCHANGED <<extvars, cfgvars, srcvars, envvars, dstvars, mapvars, newvars>>

\* lines 274-337 and 184-193: the next merge request is read and its pull request is
\* found by the marker or created (made_for records the merge request it is created
\* for); a creation answered 422 creates nothing
create_or_get_pr ==
    /\ tool = "marker" /\ pc = "loop" /\ cur < MaxMR
    /\ cur' = cur + 1
    /\ \E d \in Answers(gl_mrs[cur + 1], Descriptions(cur + 1)), ok \in BOOLEAN :
         LET iid == marker_iid(cur + 1)
             found == search_pulls(gh_objs, pulls(gh_objs, Len(gh_objs)),
                                   marker_text(PROJECT_ID, iid))
         IN  /\ gl_mrs' = [gl_mrs EXCEPT ![cur + 1] = Some(d)]
             /\ existing' = found
             /\ IF found # 0
                THEN /\ pr_number' = found
                     /\ log' = <<Call("search", found)>>
                     /\ UNCHANGED gh_objs
                ELSE IF ok
                THEN /\ gh_objs' = Append(gh_objs, [kind |-> "pr", made_for |-> iid,
                                                    body |-> body_text(iid, d)])
                     /\ pr_number' = Len(gh_objs) + 1
                     /\ log' = <<Call("search", 0), Call("create_pr", 0)>>
                ELSE /\ pr_number' = 0
                     /\ log' = <<Call("search", 0), Call("create_pr_422", 0)>>
                     /\ UNCHANGED gh_objs
    /\ UNCHANGED <<extvars, cfgvars, run, pc, gl_issues, gl_notes, envvars, gh_refs,
                   gh_labels, head, base, created_head, note_idx, mapvars, newvars>>

\* line 274: the listing is exhausted
marker_done ==
    /\ tool = "marker" /\ pc = "loop" /\ cur = MaxMR
    /\ pc' = "idle" /\ cur' = 0
    /\ ResetLocals
    /\ UNCHANGED <<extvars, cfgvars, run, srcvars, envvars, dstvars, mapvars, newvars>>

MarkerNext ==
    \/ marker_main
    \/ create_or_get_pr
    \/ marker_done

\* =========================================================================
\* the names of the destination repositories, on the text of the paths
\* =========================================================================
\* the path of a group or a project in GitLab: letters and underscores here, the
\* first and the last character a letter
PathChars == {"a", "_"}
Segments ==
    {s \in UNION {[1..n -> PathChars] : n \in 1..MaxSeg} : s[1] = "a" /\ s[Len(s)] = "a"}

\* gitlab_pr_to_github.py lines 218 and 221, migrate_bdsf_gitlab_to_csn_github.py
\* lines 38 and 42: f"{parent_path}/{path}", or path alone under the top group
join_path(parent_path, path) ==
    IF parent_path # <<>> THEN parent_path \o <<"/">> \o path ELSE path

\* gitlab_pr_to_github.py lines 32-33 and migrate_bdsf_gitlab_to_csn_github.py
\* line 76: str.replace("/", "__")
RECURSIVE flatten_repo_name(_)
flatten_repo_name(path) ==
    IF path = <<>> THEN <<>>
    ELSE (IF Head(path) = "/" THEN <<"_", "_">> ELSE <<Head(path)>>)
         \o flatten_repo_name(Tail(path))

\* where a project is: directly under the top group, or in a subgroup of it
Places == {<<>>} \cup Segments
\* two projects of one group tree, in the order of the walk (the projects of the top
\* group come first): they differ in place or in path, and a project under the top
\* group does not bear the path of a subgroup
ProjectPairs ==
    {pp \in [1..2 -> [place : Places, path : Segments]] :
        /\ pp[1] # pp[2]
        /\ pp[2].place = <<>> => pp[1].place = <<>>
        /\ \A i, j \in 1..2 : pp[i].place = <<>> => pp[j].place # pp[i].path}

\* migrate_bdsf_gitlab_to_csn_github.py lines 93-95: the run starts and the list
\* of the projects is walked, each with its full_path
flatten_main ==
    /\ tool = "flatten" /\ pc = "idle" /\ run < MaxRuns
    /\ run' = run + 1 /\ pc' = "loop" /\ cur' = 0
    /\ IF run = 0
       THEN \E pp \in ProjectPairs :
              projects' = [i \in 1..2 |->
                             [id |-> i, full_path |-> join_path(pp[i].place, pp[i].path)]]
       ELSE UNCHANGED projects
    /\ UNCHANGED <<extvars, cfgvars, datavars, repvars, lstvars, rtvars, tree>>

\* lines 96-101 and 75-91: the next project is migrated into the repository named
\* after its flattened path (created, or there already), or a step of it fails
migrate_repo ==
    /\ tool = "flatten" /\ pc = "loop" /\ cur < Len(projects)
    /\ cur' = cur + 1
    /\ LET repo == projects[cur + 1]
           repo_name == flatten_repo_name(repo.full_path)
       IN  \E ok \in BOOLEAN :
             IF ok
             THEN /\ gh_repos' = gh_repos \cup {repo_name}
                  /\ pushed' = pushed \cup {[repo |-> repo_name, project |-> repo.id]}
             ELSE UNCHANGED <<gh_repos, pushed>>
    /\ UNCHANGED <<extvars, cfgvars, run, pc, datavars, mirror, logs, lstvars, rtvars,
                   trvars>>

\* line 96: the list is exhausted
flatten_done ==
    /\ tool = "flatten" /\ pc = "loop" /\ cur = Len(projects)
    /\ pc' = "idle" /\ cur' = 0
    /\ UNCHANGED <<extvars, cfgvars, run, datavars, newvars>>

FlattenNext ==
    \/ flatten_main
    \/ migrate_repo
    \/ flatten_done

\* =========================================================================
\* specification
\* =========================================================================
Flags == [dry_run : BOOLEAN, include_system_notes : BOOLEAN,
          issue_when_nodiff : BOOLEAN]
NoFlags == [dry_run |-> FALSE, include_system_notes |-> FALSE,
            issue_when_nodiff |-> FALSE]
Tools == {"pr", "issues", "map", "heads", "bdsf", "list", "retry", "tree",
          "projects", "audit", "block", "pr_start", "audit_start",
          "csv", "labels", "lfs", "resolve", "marker", "flatten"}

Init ==
    /\ tool \in Tools
    /\ args \in (IF tool = "pr" THEN Flags ELSE {NoFlags})
    /\ user_map \in (IF tool = "issues" THEN UserMaps ELSE {{}})
    /\ branches \in (IF tool = "resolve" THEN BranchInputs ELSE {NoBranches})
    /\ run = 0 /\ pc = "idle" /\ cur = 0
    /\ gl_mrs = [i \in IIDs |-> None]
    /\ gl_issues = [i \in IIDs |-> None]
    /\ gl_notes = [i \in IIDs |-> None]
    /\ gh_probed = [i \in IIDs |-> FALSE]
    /\ gh_commits \in (IF tool = "resolve" THEN {{0}, {0, HeadSha(1)}} ELSE {{0}})
    /\ gh_diff = [i \in IIDs |-> None]
    /\ gh_refs \in (IF tool = "resolve" THEN BranchSets
                    ELSE {{[ref |-> MainBranch, sha |-> 0]}})
    /\ gh_labels = {}
    /\ gh_objs = <<>>
    /\ head = MainBranch /\ base = MainBranch /\ created_head = FALSE
    /\ pr_number = 0 /\ existing = 0 /\ note_idx = 0 /\ log = <<>>
    /\ USER_MAP = {} /\ rows_read = 0 /\ map_arg = None /\ map_result = None
    /\ gh_repos = {} /\ mirror = {} /\ pushed = {} /\ logs = <<>>
    /\ reader = "paginate" /\ per_page = 1 /\ n_items = 0
    /\ url = "first" /\ page = 1 /\ params = {} /\ sent = <<>> /\ out = <<>>
    /\ method = "GET" /\ statuses = <<>>
    /\ tree = [parent |-> <<>>, home |-> <<>>] /\ projects = <<>>
    /\ env = {} /\ net = <<>>
    /\ users = <<>> /\ targets = <<>> /\ blocked = <<>> /\ failures = <<>>
    /\ summary = None
    /\ csv = None /\ written = <<>>
    /\ steps = <<>>
    /\ lm = [labels |-> {}, milestone_title |-> None] /\ gh_milestones = {}
    /\ pr_obj = [labels |-> {}, milestone |-> None]

Next ==
    \/ PrNext
    \/ IssuesNext
    \/ MapNext
    \/ HeadsNext
    \/ BdsfNext
    \/ ListNext
    \/ RetryNext
    \/ TreeNext
    \/ BatchNext
    \/ BlockNext
    \/ StartNext
    \/ CsvNext
    \/ LabelsNext
    \/ LfsNext
    \/ ResolveNext
    \/ MarkerNext
    \/ FlattenNext

Spec == Init /\ [][Next]_vars

\* the branch resolution alone
HeadsInit == Init /\ tool = "heads"
SpecHeads == HeadsInit /\ [][HeadsNext]_vars
\* ensure_head_and_base alone
ResolveInit == Init /\ tool = "resolve"
SpecResolve == ResolveInit /\ [][ResolveNext]_vars
\* the marker search alone
MarkerInit == Init /\ tool = "marker"
SpecMarker == MarkerInit /\ [][MarkerNext]_vars
\* the repository names alone
FlattenInit == Init /\ tool = "flatten"
SpecFlatten == FlattenInit /\ [][FlattenNext]_vars
\* the readers of listings alone
ListInit == Init /\ tool = "list"
SpecList == ListInit /\ [][ListNext]_vars
\* the retrying session alone
RetryInit == Init /\ tool = "retry"
SpecRetry == RetryInit /\ [][RetryNext]_vars
\* the discovery alone
TreeInit == Init /\ tool = "tree"
SpecTree == TreeInit /\ [][TreeNext]_vars
\* the loops over the projects alone
BatchInit == Init /\ tool \in {"projects", "audit", "bdsf"}
SpecBatch == BatchInit /\ [][BatchNext \/ BdsfNext]_vars
\* the blocking of users alone
BlockInit == Init /\ tool = "block"
SpecBlock == BlockInit /\ [][BlockNext]_vars
\* the start of the two scripts alone
StartInit == Init /\ tool \in {"pr_start", "audit_start"}
SpecStart == StartInit /\ [][StartNext]_vars
\* the output files of the export alone
CsvInit == Init /\ tool = "csv"
SpecCsv == CsvInit /\ [][CsvNext]_vars
\* labels and milestone of a pull request alone
LabelsInit == Init /\ tool = "labels"
SpecLabels == LabelsInit /\ [][LabelsNext]_vars
\* the steps of migrate_repo_with_lfs.py alone
LfsInit == Init /\ tool = "lfs"
SpecLfs == LfsInit /\ [][LfsNext]_vars
\* the readers and the batch loops, each a sequential program that takes its next
\* step whenever it has one
LiveInit == Init /\ tool \in {"list", "tree", "projects", "audit", "bdsf", "block", "lfs"}
LiveNext == ListNext \/ TreeNext \/ BatchNext \/ BdsfNext \/ BlockNext \/ LfsNext
SpecLive == LiveInit /\ [][LiveNext]_vars /\ WF_vars(LiveNext)
\* =========================================================================
\* properties
\* =========================================================================
\* the destination objects (pull requests and issues) that hold marker m
Holding(m) == {k \in DOMAIN gh_objs : gh_objs[k].body.marker = m}
\* the notes of the current record that are to be replayed
Replayable ==
    {n \in Range(gl_notes[cur][1]) : note_system(n) => args.include_system_notes}
ContentOps == {"create_pr", "create_issue", "ensure_labels", "set_labels", "comment"}
FinalOps == {"merge", "close"}

\* C1: a pull request found by its marker is returned as it is and nothing is
\* created in its place; whatever the number of runs, at most one pull request was
\* created with the marker of a given merge request.
C1_UpsertIdempotent ==
    tool = "pr" =>
      /\ \A i \in IIDs :
           Cardinality({k \in Holding(Marker(PROJECT_ID, i)) :
                           gh_objs[k].kind = "pr"}) <= 1
      /\ (pc \in {"labels", "notes"} /\ existing # 0) =>
           /\ pr_number = existing
           /\ gh_objs[existing].kind = "pr"
           /\ MarkerIn(Marker(PROJECT_ID, cur), gh_objs[existing].body)
           /\ "create_pr" \notin Ops(log)
\* a later run finds the pull request an earlier run created
C1_Witness == tool = "pr" /\ run = 2 /\ pc = "labels" /\ existing # 0

\* C2: with --issue-when-nodiff, however often the batch is rerun, at most one
\* destination object (pull request or substitute issue) holds the marker of a
\* merge request.
C2_OneObjectPerMarker ==
    tool = "pr" => \A i \in IIDs : Cardinality(Holding(Marker(PROJECT_ID, i))) <= 1

\* C3: an issue is created only after the destination was searched for a prior
\* import of it, and however often the migration is run, a source issue has at most
\* one destination issue.
C3_IssueFindOrCreate ==
    tool = "issues" =>
      /\ \A i \in DOMAIN log : log[i].op = "create_issue" =>
             \E j \in 1..(i - 1) : log[j].op = "search"
      /\ \A i \in IIDs : Cardinality(Holding(IssueTrailer(i))) <= 1

\* C4: however often the import is rerun (interrupted or not), a pull request holds
\* at most one comment per source note.
C4_OneCommentPerNote ==
    tool = "pr" =>
      \A k \in DOMAIN gh_objs : \A n \in NoteIds : Count(gh_objs[k].comments, n) <= 1

\* C5: for each record the marker search comes before any precondition is resolved,
\* and no branch ref is created for a record whose pull request is found by marker.
C5_SearchBeforePreconditions ==
    tool = "pr" =>
      /\ \A i \in DOMAIN log : log[i].op \in {"ensure_head_and_base", "create_ref"} =>
             \E j \in 1..(i - 1) : log[j].op = "search"
      /\ existing # 0 => Call("create_ref", 1) \notin Range(log)

\* C6: the close/merge call of a record comes after its object was created, its
\* labels applied and every replayable note commented; an object created for the
\* record stays open until then, so a run that stops earlier leaves it open.
C6_FinalStateLast ==
    /\ \A i \in DOMAIN log : log[i].op \in FinalOps =>
         /\ \A j \in DOMAIN log : log[j].op \in ContentOps => j < i
         /\ \A n \in Replayable : \E j \in 1..(i - 1) : log[j] = Call("comment", n)
    /\ (pc \in {"labels", "notes"} /\ Ops(log) \cap {"create_pr", "create_issue"} # {}) =>
         gh_objs[pr_number].state = "open"
\* an object with a replayed comment has been closed or merged
C6_Witness ==
    \E i, j \in DOMAIN log : log[i].op = "comment" /\ log[j].op \in FinalOps

\* C7: the comments of a record are posted in the order of created_at of their
\* notes, whatever the order of the listing.
C7_ChronologicalComments ==
    \A i, j \in DOMAIN log :
        (log[i].op = "comment" /\ log[j].op = "comment"
         /\ note_created_at(log[i].arg) < note_created_at(log[j].arg)) => i < j

\* C8: once the notes of a record are replayed, the notes commented are exactly its
\* non-system notes and, if and only if include_system_notes is set, its system
\* notes; each of them once.
C8_SystemNotesOnRequest ==
    "set_pr_state" \in Ops(log) =>
      /\ Range(Commented(log)) = Replayable
      /\ Len(Commented(log)) = Cardinality(Replayable)
\* a system note was replayed beside a user's note because the flag is set
C8_Witness ==
    /\ tool = "pr" /\ args.include_system_notes /\ "set_pr_state" \in Ops(log)
    /\ \E m, n \in Range(Commented(log)) : note_system(m) /\ ~note_system(n)

\* C9: map_user returns "unknown" for an absent or empty identity, the table's value
\* for a key of the table and the identity itself otherwise, and never an empty string.
C9_MapUserResult ==
    map_result # None =>
      /\ map_result[1] =
           IF map_arg = None \/ map_arg[1] = <<>> THEN Unknown
           ELSE IF map_arg[1] \in dict_keys(USER_MAP)
                THEN dict_get(USER_MAP, map_arg[1], map_arg[1])
                ELSE map_arg[1]
      /\ map_result[1] # <<>>

\* the users a source record names, by the script that migrates it
SourceUsers(obj) ==
    IF tool = "pr" THEN {gl_mrs[obj.body.marker.iid][1].author}
    ELSE LET issue == gl_issues[obj.body.marker.iid][1]
         IN  {issue.author} \cup Range(issue.assignee)
\* C10: every user a source record names and the mapping table does not know is
\* named, by the unchanged identity, in the object created for the record, and the
\* comment of a note names the unmapped author of the note.
C10_UnmappedUserKept ==
    tool \in {"pr", "issues"} =>
      /\ \A k \in DOMAIN gh_objs : \A u \in SourceUsers(gh_objs[k]) :
             u \notin dict_keys(user_map) =>
                 u \in gh_objs[k].assignees \cup gh_objs[k].body.credits
      /\ \A n \in NoteIds : note_author(n) \notin dict_keys(user_map) =>
             comment_author_str(user_map, note_author(n)).name = note_author(n)
\* C11: for every merge request of a run whose source branch is missing on the
\* destination: if its head SHA is known and present there, the head returned is
\* the import branch, created, and that branch points at this SHA; otherwise the
\* head returned is the base and nothing was created.
C11_BranchStateMachine ==
    (tool = "heads" /\ pc = "loop" /\ cur > 0) =>
      LET mr == gl_mrs[cur][1]
      IN  ~github_branch_exists(gh_refs, mr.source_branch) =>
            IF mr.head_sha # None /\ github_commit_exists(gh_commits, mr.head_sha[1])
            THEN /\ head = Branch(TRUE, mr.source_branch.name)
                 /\ created_head
                 /\ [ref |-> head, sha |-> mr.head_sha[1]] \in gh_refs
            ELSE head = base /\ ~created_head
Statuses == {sent[i].status : i \in DOMAIN sent}
AllItems == [i \in 1..n_items |-> i]
C14_EveryListingPaginated ==
    (tool = "list" /\ pc = "done" /\ Statuses \subseteq {200}) =>
      Range(out) = 1..n_items

\* C15: the first request of the next-link paginator carries the caller's parameters
\* and per_page; every request after it goes to the next link with no parameter.
C15_NextLinkDropsParams ==
    (tool = "list" /\ reader = "paginate") =>
      \A i \in DOMAIN sent :
         IF i = 1 THEN sent[i].url = "first" /\ "per_page" \in sent[i].params
         ELSE sent[i].url = "next" /\ sent[i].params = {}
\* a next link was followed by a caller that had passed a parameter of its own
C15_Witness ==
    /\ tool = "list" /\ reader = "paginate" /\ Len(sent) >= 2
    /\ "state" \in sent[1].params /\ sent[2].url = "next"

\* C16: when a request of a listing is answered with an error status the reader
\* fails to its caller; no caller is handed a list after a failed request.
C16_ListingErrorsSurface ==
    (tool = "list" /\ 500 \in Statuses) => pc = "raised"
\* C17: a call is attempted at most 1 + 5 times; every attempt that was repeated had
\* been answered with a status of the force list; a call that raised was answered
\* with such statuses 1 + 5 times; a call answered with another status (a 4xx other
\* than 429 in particular) ends with this answer returned, after one attempt when it
\* is the first answer.
C17_BoundedRetry ==
    tool = "retry" =>
      /\ Len(statuses) <= 1 + RETRY_TOTAL
      /\ \A i \in 1..(Len(statuses) - 1) : statuses[i] \in status_forcelist
      /\ pc = "raised" =>
            /\ Len(statuses) = 1 + RETRY_TOTAL
            /\ \A i \in DOMAIN statuses : statuses[i] \in status_forcelist
      /\ (statuses # <<>> /\ statuses[Len(statuses)] \notin status_forcelist) =>
            pc = "returned"
      /\ (statuses # <<>> /\ statuses[1] \notin status_forcelist) =>
            Len(statuses) = 1 /\ pc = "returned"
\* a GET that was answered 503 every time has raised after its fifth retry
C17_Witness ==
    /\ tool = "retry" /\ method = "GET" /\ pc = "raised"
    /\ \A i \in DOMAIN statuses : statuses[i] = 503
RECURSIVE AncestorPath(_)
\* the segments of the subgroups from below the top group down to group g
AncestorPath(g) ==
    IF g = 0 THEN <<>> ELSE AncestorPath(tree.parent[g]) \o <<Seg("g", g)>>
RECURSIVE Below(_, _)
\* group g lies strictly below group a
Below(g, a) == g # 0 /\ (tree.parent[g] = a \/ Below(tree.parent[g], a))
\* C18: the list the discovery returns holds each project of the tree exactly once,
\* with full_path the segments of its ancestor subgroups followed by its own, and
\* the projects of a group before those of the groups below it; so it is the same
\* list on every run over the tree.
C18_TreeWalk ==
    (tool = "tree" /\ pc = "idle" /\ run > 0) =>
      /\ Len(projects) = MaxProjects
      /\ \A q \in 1..MaxProjects : \E i \in DOMAIN projects : projects[i].id = q
      /\ \A i \in DOMAIN projects :
            projects[i].full_path =
                AncestorPath(tree.home[projects[i].id]) \o <<Seg("p", projects[i].id)>>
      /\ \A i, j \in DOMAIN projects :
            Below(tree.home[projects[j].id], tree.home[projects[i].id]) => i < j
\* a project two subgroups down was discovered after a project of the top group
C18_Witness ==
    /\ tool = "tree" /\ pc = "idle" /\ run = 2
    /\ \E i, j \in DOMAIN projects :
         /\ i < j /\ Len(projects[i].full_path) = 1 /\ Len(projects[j].full_path) = 3
\* C19: a failure while a record is processed does not end the work on the project:
\* as long as records come after the current one, the run does not stop in the
\* middle of a record.
C19_RecordFailureIsolated ==
    [][(tool \in {"pr", "issues"} /\ pc \in {"ensure", "create", "labels", "notes"}
        /\ cur < MaxMR) => pc' # "idle"]_vars
\* C20: once the list of projects is there, a failure while one project is processed
\* does not end the run: as long as projects come after the current one, the run
\* goes on (in the audit export for each endpoint of each project).
C20_ProjectFailureIsolated ==
    [][(tool \in {"projects", "audit", "bdsf"} /\ pc # "idle" /\ cur < MaxRepos)
         => pc' # "idle"]_vars

\* C21: when the creation of the pull request is refused for "no diff / invalid
\* head" and --issue-when-nodiff is on, the record gets exactly one issue creation
\* and no pull request, nothing else is written for it, the issue created carries
\* the label historical-mr and the marker of the record, and the loop goes on to
\* the next record.
C21_IssueSubstitute ==
    (tool = "pr" /\ args.issue_when_nodiff /\ "create_pr_422" \in Ops(log)) =>
        /\ pc = "loop"
        /\ Cardinality({i \in DOMAIN log : log[i].op = "create_issue"}) = 1
        /\ Ops(log) \cap {"create_pr", "set_labels", "comment", "merge", "close"} = {}
        /\ \A i \in DOMAIN log : (log[i].op = "create_issue" /\ log[i].arg # 0) =>
              /\ log[i].arg = Len(gh_objs)
              /\ gh_objs[log[i].arg].kind = "issue"
              /\ gh_objs[log[i].arg].labels = {"historical-mr"}
              /\ gh_objs[log[i].arg].body.marker = Marker(PROJECT_ID, cur)
              /\ gh_objs[log[i].arg].comments = <<>>
C21_Witness ==
    /\ tool = "pr" /\ args.issue_when_nodiff /\ pc = "loop" /\ cur = MaxMR
    /\ \E i \in DOMAIN log : log[i].op = "create_issue" /\ log[i].arg # 0
    /\ gh_objs # <<>> /\ gh_objs[Len(gh_objs)].labels = {"historical-mr"}

\* C22: when the creation of the pull request is refused for "no diff / invalid
\* head" and --issue-when-nodiff is off, the processing of the record has created
\* nothing on the destination (no pull request, no issue, no comment, no branch
\* ref), has logged exactly one warning, and the loop goes on to the next record.
C22_SkipCreatesNothing ==
    (tool = "pr" /\ ~args.issue_when_nodiff /\ "create_pr_422" \in Ops(log)) =>
        /\ pc = "loop"
        /\ Ops(log) \cap {"create_pr", "create_issue", "set_labels", "comment"} = {}
        /\ Call("create_ref", 1) \notin Range(log)
        /\ Cardinality({i \in DOMAIN log : log[i].op = "warning"}) = 1

\* C23: with the dry-run toggle on, nothing is written to a destination: a run of
\* gitlab_pr_to_github.py with --dry-run issues no call after reading a merge
\* request and leaves branch refs, labels, pull requests, issues and comments as
\* they were, and a run of block.py with DRY_RUN unset or truthy sends no block
\* request, whatever the source lists.
C23_DryRunWritesNothing ==
    /\ (tool = "pr" /\ args.dry_run) =>
          /\ log = <<>> /\ pc \in {"idle", "loop"}
          /\ gh_objs = <<>> /\ gh_labels = {}
          /\ gh_refs = {[ref |-> MainBranch, sha |-> 0]}
    /\ (tool = "block" /\ DRY_RUN(env)) => blocked = <<>>
C23_Witness ==
    /\ tool = "pr" /\ args.dry_run /\ run = MaxRuns /\ pc = "loop" /\ cur = MaxMR
    /\ \A i \in IIDs : gl_mrs[i] # None

\* C24: when a required credential or identifier is missing from the environment,
\* the script stops at its start and has sent no request to the source or the
\* destination API.
C24_ConfigErrorBeforeNetwork ==
    (tool \in {"pr_start", "audit_start"} /\ pc # "idle" /\ ~all_set(env, tool)) =>
        /\ net = <<>>
        /\ pc \in {"loaded", "exit", "raised"}

\* C25: after any number of export runs into the same output directory, an output
\* file holds its column header exactly once, as its first line, and after it every
\* row written by every run, in the order written and without de-duplication.
C25_HeaderOnce ==
    (tool = "csv" /\ csv # None) =>
        /\ Head(csv[1]) = Header
        /\ Count(csv[1], Header) = 1
        /\ Tail(csv[1]) = [i \in DOMAIN written |-> Row(written[i])]
C25_Witness ==
    /\ tool = "csv" /\ run = MaxRuns /\ pc = "idle"
    /\ Len(written) = MaxRuns * MaxRows
    /\ \E i, j \in DOMAIN written : i # j /\ written[i] = written[j]

\* C26: no failure while ensuring or applying the labels or the milestone of a
\* pull request raises (a failed listing of the milestones included): whenever the
\* step has been entered and the record is over, its comments have been replayed
\* and its final state has been applied.
C26_LabelsBestEffort ==
    tool = "labels" =>
        /\ pc # "raised"
        /\ (pc = "idle" /\ run > 0) => {"replay_notes", "apply_state"} \subseteq Ops(log)

\* C27: a version-control command that exits non-zero is the last step run for the
\* resource: no later step runs, and the resource ends reported as failed.
C27_GitFailureFatal ==
    tool = "lfs" =>
        \A i \in DOMAIN steps :
            (steps[i].cmd # "ensure_github_repo" /\ steps[i].rc # 0) =>
                /\ i = Len(steps)
                /\ pc \in {"raised", "idle"}
                /\ pc = "idle" => summary # None

\* the items the invocation that ended reported as failed in a closing summary
Reported == IF summary = None THEN {} ELSE Range(summary[1])
\* the items whose processing failed during that invocation
Failed ==
    IF tool = "block"
    THEN {blocked[i].uid : i \in {j \in DOMAIN blocked : blocked[j].status \notin {200, 201}}}
    ELSE {logs[i].item : i \in {j \in DOMAIN logs : logs[j].level = "error"}}

\* C28: when a run has ended, the tool has reported the set of the items that
\* failed, and that set is exactly the set of the items whose processing failed
\* during the run.
C28_FinalSummary ==
    (tool \in {"block", "projects", "bdsf"} /\ pc = "idle" /\ run > 0) =>
        Reported = Failed

\* C29: over a finite source every reader that was started comes to its end (the
\* next-link paginator, the page-number paginators, the search for a marker, the
\* user listing of block.py and get_group_projects of the archive script each stop,
\* done, found or raised, after finitely many requests), and every run of a batch
\* loop that was started finishes.
C29_Termination ==
    /\ (tool = "list" /\ pc = "fetch") ~> (pc \in {"done", "found", "raised"})
    /\ (tool # "list" /\ pc # "idle") ~> (pc = "idle")
\* the search for a marker has gone through every page and ended on the empty one
C29_Witness ==
    /\ tool = "list" /\ reader = "find_existing_pr_by_marker" /\ pc = "done"
    /\ n_items = MaxItems /\ per_page = 1 /\ page = MaxItems + 1

\* every call of an operation of later is preceded by a call of one of earlier
Precedes(l, earlier, later) ==
    \A i \in DOMAIN l : l[i].op \in later => \E j \in 1..(i - 1) : l[j].op \in earlier

\* C30: within one record, the labels attached to a pull request or an issue were
\* ensured on the destination before the call that attaches them (the label
\* historical-mr of a substitute issue included), the head and base refs were
\* ensured before the pull request is created, and a comment is posted only after
\* the object it belongs to was created or found.
C30_DependentWritesOrdered ==
    /\ tool = "pr" =>
          /\ Precedes(log, {"ensure_labels"}, {"set_labels", "create_issue"})
          /\ Precedes(log, {"ensure_head_and_base"}, {"create_pr", "create_pr_422"})
          /\ Precedes(log, {"create_pr", "search"}, {"comment"})
    /\ tool = "issues" =>
          /\ \A k \in DOMAIN gh_objs : gh_objs[k].labels \subseteq gh_labels
          /\ Precedes(log, {"create_issue"}, {"comment"})

\* the calls of set_pr_state in a call log: what follows its entry
StateCalls(l) ==
    IF \E i \in DOMAIN l : l[i].op = "set_pr_state"
    THEN SubSeq(l, (CHOOSE i \in DOMAIN l : l[i].op = "set_pr_state") + 1, Len(l))
    ELSE <<>>

\* C31: in set_pr_state a record whose source state is open receives no merge and
\* no close call, a closed record exactly one close call, a merged record one merge
\* attempt and, only when that attempt is not answered 200/201, exactly one close
\* call; a merged record whose close call succeeded (or whose merge did) does not
\* end the step open.
C31_StateApplication ==
    (tool = "pr" /\ pc = "loop" /\ "set_pr_state" \in Ops(log)) =>
      LET state == mr_state(gl_mrs[cur][1])
          calls == StateCalls(log)
      IN  /\ state = "open" => calls = <<>>
          /\ state = "closed" =>
               Len(calls) = 1 /\ calls[1].op = "close"
          /\ state = "merged" =>
               /\ Len(calls) >= 1 /\ calls[1].op = "merge"
               /\ calls[1].arg \in {200, 201} => Len(calls) = 1
               /\ calls[1].arg \notin {200, 201} =>
                    Len(calls) = 2 /\ calls[2].op = "close"
               /\ (calls[1].arg \in {200, 201} \/ calls[Len(calls)] = Call("close", 200)) =>
                    gh_objs[pr_number].state # "open"
\* a merged record whose merge was refused was closed instead
C31_Witness ==
    /\ tool = "pr" /\ pc = "loop" /\ "set_pr_state" \in Ops(log)
    /\ mr_state(gl_mrs[cur][1]) = "merged"
    /\ StateCalls(log) = <<Call("merge", 405), Call("close", 200)>>
    /\ gh_objs[pr_number].state = "closed"

\* C32: ensure_head_and_base returns as base the target branch when it exists on
\* the destination, otherwise the default branch of the repository when that
\* exists, otherwise main; it returns as head the source branch (when it exists on
\* the destination), the branch import/<source branch> (exactly when created is
\* true) or base; and when the source branch name is empty the head is the base.
C32_BaseBranchResolution ==
    (tool = "resolve" /\ pc = "returned") =>
      LET source == branches.source_branch
          target == branches.target_branch
          default == branches.default_branch
      IN  /\ base = IF target # EmptyBranch /\ github_branch_exists(gh_refs, target)
                    THEN target
                    ELSE IF github_branch_exists(gh_refs, default) THEN default
                    ELSE MainBranch
          /\ \/ head = source /\ github_branch_exists(gh_refs, source)
             \/ head = Branch(TRUE, source.name)
             \/ head = base
          /\ created_head <=> head = Branch(TRUE, source.name)
          /\ source = EmptyBranch => head = base

\* C33: find_existing_pr_by_marker called with the marker of a merge request
\* returns only a pull request that was created for that merge request, whatever
\* the iids (1 and 12 alike) and whatever the descriptions contain (the marker of
\* another merge request included).
C33_MarkerMatchesOwnRecord ==
    (tool = "marker" /\ existing # 0) => gh_objs[existing].made_for = marker_iid(cur)

\* C34: flatten_repo_name maps two distinct project full paths of one group tree
\* to two distinct repository names: no destination repository received two
\* source projects.
C34_RepoNamesUnique ==
    tool = "flatten" =>
      \A x, y \in pushed : x.repo = y.repo => x.project = y.project

\* C35: in every run of block.py a block request is sent for a user only if the
\* listing reported the user as not admin and in state active, no user receives two
\* block requests, and with DRY_RUN unset or truthy no block request is sent.
C35_BlockTargets ==
    tool = "block" =>
      /\ \A i \in DOMAIN blocked :
           \E k \in DOMAIN users :
              /\ users[k].id = blocked[i].uid
              /\ ~users[k].admin /\ users[k].state = "active"
      /\ \A i, j \in DOMAIN blocked : blocked[i].uid = blocked[j].uid => i = j
      /\ (env = {} \/ \E e \in env : e.k = "DRY_RUN" /\ e.v \in {"1", "true", "yes", "TRUE"})
           => blocked = <<>>
\* a run that was not dry has sent its block requests to the one active user who
\* is no administrator and to nobody else
C35_Witness ==
    /\ tool = "block" /\ pc = "idle" /\ Len(users) = 2 /\ Len(blocked) = 1
    /\ \E k \in DOMAIN users : users[k].admin \/ users[k].state # "active"
====
